---------------------------- MODULE Spec2Model ----------------------------
(***************************************************************************)
(* aurora-data-api: a DB-API 2.0 client on top of the RDS Data API.        *)
(*                                                                         *)
(* Two state machines are modelled.                                        *)
(*   ConnSpec : the Connection (SyncAuroraDataAPIClient /                  *)
(*              AsyncAuroraDataAPIClient): lazy begin, commit, rollback,   *)
(*              scoped exit.  The async client runs the same statements    *)
(*              with an await in front of every request.                   *)
(*   Spec     : one Cursor (SyncAuroraDataAPICursor or                     *)
(*              AsyncAuroraDataAPICursor, chosen by `kind`) executing      *)
(*              statements against the service and handing rows out.       *)
(* The service is the environment: what it answers to a request is an      *)
(* input of the action that sends the request.                             *)
(***************************************************************************)
EXTENDS Integers, Sequences, FiniteSets, TLC

\* ------------------------------------------------------------------ bounds
\* transactions the service hands out before the model stops beginning more
MaxTxn == 3
\* begin_transaction requests sent before the model stops sending more
MaxBegins == 4
\* commit/rollback requests naming one id before the model stops sending more
MaxEnds == 2

\* ---------------------------------------------------------------- Connection
VARIABLES
    transaction_id,   \* Connection._transaction_id; 0 is None
    charset,          \* Connection._charset is set (a SET statement runs in cursor())
    begins,           \* begin_transaction requests sent so far
    srvTxn,           \* ids the service has handed out so far (the last one is srvTxn)
    ended,            \* per id: commit_transaction/rollback_transaction requests that named it
    entered,          \* inside the connection's with-block
    call              \* the last Connection call: what it found, sent and raised

connVars == <<transaction_id, charset, begins, srvTxn, ended, entered, call>>

VARIABLES
    kind,              \* "sync": SyncAuroraDataAPICursor, "async": AsyncAuroraDataAPICursor
    arraysize,         \* Cursor.arraysize
    current_response,  \* Cursor._current_response: [set, records]; set = FALSE is None
    paging_state,      \* Cursor._paging_state: [set, records_per_page]; set = FALSE is None
    iterator,          \* sync Cursor._iterator, the generator made by iter(self)
    record_index,      \* async Cursor._record_index; -1: the attribute does not exist
    page_iterator,     \* async Cursor._page_iterator; st = "unset": the attribute does not exist
    srv,               \* the service: the named cursor the paging state addresses
    stmt,              \* the statement of the latest execute
    via,               \* how the latest execute ended: none, ok (direct), updated, paginate,
                       \* oversize, failed; exited once the Cursor's with-block ended
    reqs,              \* execute_statement requests sent since the latest execute began
    delivered,         \* rows handed to the caller since the latest execute
    ret,               \* rows returned by the latest fetch call (a fetchone: one row or none)
    raised,            \* what the latest call raised, "none" if nothing
    hist,              \* the fetch calls made since the latest execute: none, one kind, or mixed
    fin,               \* consumption since the latest execute: open, ended (the latest call
                       \* reported the end of the rows), past (calls followed), failed
    oversized,         \* a FETCH of the latest execute failed with the oversize signal
    fault,             \* the request failure that ended the latest call: [op, cat]
    error,             \* the exception _get_database_error made last: [cls, family, args, attrs]
    did,               \* the latest call when it was not an execute or a fetch: [op, value, mode]
    pc,                \* where a call that is followed request by request stands: the
                       \* call, the request it waits for, the answer it handles later
    inflight,          \* the Cursor's requests that were sent and are not answered yet
    description,       \* Cursor.description: [set, cols]; set = FALSE is None
    continue_after_timeout,  \* Cursor._continue_after_timeout: "None", "True" or "False"
    factory,           \* MySQLError and PostgreSQLError: the classes set on each as
                       \* attributes, and how many classes were made
    tasks              \* the coroutines running cursor() on the Connection: where each
                       \* stands and the id of the Cursor it returned

curVars == <<kind, arraysize, current_response, paging_state, iterator, record_index,
             page_iterator, srv, stmt, via, reqs, delivered, ret, raised, hist, fin, oversized,
             fault, error, did, pc, inflight, description, continue_after_timeout,
             factory, tasks>>

stepVars == <<pc, inflight>>

metaVars == <<description, continue_after_timeout, factory, tasks>>

vars == <<connVars, curVars>>

NoTxn == 0
TxnIds == 1..MaxTxn

\* what the service may answer to commit_transaction: a response carrying a
\* transactionStatus, or a failure the client library raises
CommitAnswers == {"Transaction Committed", "Rollback Complete", "raise"}
RollbackAnswers == {"Rollback Complete", "raise"}
BeginAnswers == {"ok", "raise"}
\* what the SET character_set_client statement of cursor() ends with
SetAnswers == {"ok", "raise"}

Req(rpc, txn) == [rpc |-> rpc, txn |-> txn]

\* the requests of a call that end a transaction
EndReqs(sent) == SelectSeq(sent, LAMBDA r : r.rpc \in {"commit", "rollback"})
CountEnd(sent, id) == Len(SelectSeq(sent, LAMBDA r : r.rpc \in {"commit", "rollback"} /\ r.txn = id))
CountRpc(sent, rpc) == Len(SelectSeq(sent, LAMBDA r : r.rpc = rpc))

\* commit() without its guard on the id held
commit_sends_without_txn(tid, ans) ==
    IF ans = "raise"
    THEN [tid |-> tid, sent |-> <<Req("commit", tid)>>, raised |-> "ClientError"]
    ELSE [tid |-> NoTxn, sent |-> <<Req("commit", tid)>>,
          raised |-> IF ans # "Transaction Committed" THEN "DatabaseError" ELSE "none"]

\* commit(): the outcome [tid, sent, raised] from the id held and the answer
commit(tid, ans) ==
    IF tid # NoTxn
    THEN IF ans = "raise"
         \* commit_transaction raised: the assignment after it is not reached
         THEN [tid |-> tid, sent |-> <<Req("commit", tid)>>, raised |-> "ClientError"]
         ELSE [tid |-> NoTxn, sent |-> <<Req("commit", tid)>>,
               raised |-> IF ans # "Transaction Committed" THEN "DatabaseError" ELSE "none"]
    ELSE [tid |-> tid, sent |-> <<>>, raised |-> "none"]

\* rollback() that sends the request once more when it failed
rollback_again(tid, ans) ==
    IF tid # NoTxn
    THEN IF ans = "raise"
         THEN [tid |-> tid, sent |-> <<Req("rollback", tid), Req("rollback", tid)>>,
               raised |-> "ClientError"]
         ELSE [tid |-> NoTxn, sent |-> <<Req("rollback", tid)>>, raised |-> "none"]
    ELSE [tid |-> tid, sent |-> <<>>, raised |-> "none"]

\* rollback(): the response is not looked at
rollback(tid, ans) ==
    IF tid # NoTxn
    THEN IF ans = "raise"
         THEN [tid |-> tid, sent |-> <<Req("rollback", tid)>>, raised |-> "ClientError"]
         ELSE [tid |-> NoTxn, sent |-> <<Req("rollback", tid)>>, raised |-> "none"]
    ELSE [tid |-> tid, sent |-> <<>>, raised |-> "none"]

\* cursor() that begins a transaction whether or not an id is held
cursor_always_begins(tid, next, bans, sans, cs) ==
    IF bans = "raise"
    THEN [tid |-> tid, sent |-> <<Req("begin", NoTxn)>>, raised |-> "ClientError", cur |-> NoTxn]
    ELSE [tid |-> next, sent |-> <<Req("begin", NoTxn)>>, raised |-> "none", cur |-> next]

\* cursor(): begins only when no id is held; the Cursor gets the id held after that
cursor(tid, next, bans, sans, cs) ==
    LET begin == tid = NoTxn
        held  == IF begin THEN next ELSE tid
        b     == IF begin THEN <<Req("begin", NoTxn)>> ELSE <<>>
    IN  IF begin /\ bans = "raise"
        THEN [tid |-> tid, sent |-> b, raised |-> "ClientError", cur |-> NoTxn]
        ELSE IF cs
             THEN [tid |-> held, sent |-> b \o <<Req("execute", held)>>,
                   raised |-> IF sans = "raise" THEN "DatabaseError" ELSE "none",
                   cur |-> IF sans = "raise" THEN NoTxn ELSE held]
             ELSE [tid |-> held, sent |-> b, raised |-> "none", cur |-> held]

\* __exit__(err_type, ...): rollback() on a failure, commit() otherwise; returns None,
\* so a failure that entered it goes on unless the call inside raised another one
exit(tid, err, cans, rans) ==
    IF err
    THEN LET r == rollback(tid, rans)
         IN  r @@ [propagated |-> IF r.raised = "none" THEN "original" ELSE r.raised]
    ELSE LET c == commit(tid, cans)
         IN  c @@ [propagated |-> c.raised]

Bump(f, sent) == [id \in TxnIds |-> f[id] + CountEnd(sent, id)]
\* the model's cap on the requests that may name the id held
MayEnd == transaction_id # NoTxn => ended[transaction_id] < MaxEnds

ConnInit ==
    /\ transaction_id = NoTxn
    /\ charset \in BOOLEAN
    /\ begins = 0
    /\ srvTxn = 0
    /\ ended = [id \in TxnIds |-> 0]
    /\ entered = FALSE
    /\ call = [op |-> "init", pre |-> NoTxn, sent |-> <<>>, raised |-> "none",
               cur |-> NoTxn, ans |-> "none", propagated |-> "none"]

ConnCursor ==
    \E bans \in BeginAnswers, sans \in SetAnswers :
        LET r == cursor(transaction_id, srvTxn + 1, bans, sans, charset)
            n == CountRpc(r.sent, "begin")
        IN  /\ (transaction_id = NoTxn) => (srvTxn < MaxTxn /\ begins < MaxBegins)
            /\ transaction_id' = r.tid
            /\ begins' = begins + n
            /\ srvTxn' = IF n > 0 /\ bans = "ok" THEN srvTxn + 1 ELSE srvTxn
            /\ call' = [op |-> "cursor", pre |-> transaction_id, sent |-> r.sent,
                        raised |-> r.raised, cur |-> r.cur, ans |-> bans,
                        propagated |-> r.raised]
            /\ UNCHANGED <<charset, ended, entered>>
            /\ UNCHANGED curVars

ConnCommit ==
    /\ MayEnd
    /\ \E ans \in CommitAnswers :
        LET r == commit(transaction_id, ans)
        IN  /\ transaction_id' = r.tid
            /\ ended' = Bump(ended, r.sent)
            /\ call' = [op |-> "commit", pre |-> transaction_id, sent |-> r.sent,
                        raised |-> r.raised, cur |-> NoTxn, ans |-> ans,
                        propagated |-> r.raised]
            /\ UNCHANGED <<charset, begins, srvTxn, entered>>
            /\ UNCHANGED curVars

ConnRollback ==
    /\ MayEnd
    /\ \E ans \in RollbackAnswers :
        LET r == rollback(transaction_id, ans)
        IN  /\ transaction_id' = r.tid
            /\ ended' = Bump(ended, r.sent)
            /\ call' = [op |-> "rollback", pre |-> transaction_id, sent |-> r.sent,
                        raised |-> r.raised, cur |-> NoTxn, ans |-> ans,
                        propagated |-> r.raised]
            /\ UNCHANGED <<charset, begins, srvTxn, entered>>
            /\ UNCHANGED curVars

ConnEnter ==
    /\ ~entered
    /\ entered' = TRUE
    /\ call' = [op |-> "enter", pre |-> transaction_id, sent |-> <<>>, raised |-> "none",
                cur |-> NoTxn, ans |-> "none", propagated |-> "none"]
    /\ UNCHANGED <<transaction_id, charset, begins, srvTxn, ended>>
    /\ UNCHANGED curVars

ConnExit ==
    /\ entered
    /\ MayEnd
    /\ \E err \in BOOLEAN, cans \in CommitAnswers, rans \in RollbackAnswers :
        LET r == exit(transaction_id, err, cans, rans)
        IN  /\ transaction_id' = r.tid
            /\ ended' = Bump(ended, r.sent)
            /\ call' = [op |-> IF err THEN "exit_err" ELSE "exit_ok",
                        pre |-> transaction_id, sent |-> r.sent, raised |-> r.raised,
                        cur |-> NoTxn, ans |-> IF err THEN rans ELSE cans,
                        propagated |-> r.propagated]
    /\ entered' = FALSE
    /\ UNCHANGED <<charset, begins, srvTxn>>
    /\ UNCHANGED curVars

\* -------------------------------------------------------------------- Cursor
\* rows of the largest result
MaxRows == 6
\* rows of the largest result given to the async cursor
MaxRowsAsync == 2
\* heavy rows at the end of a result
MaxHeavy == 2
\* largest value the caller assigns to cursor.arraysize after cursor() (or leaves the default)
MaxArraySize == 4
\* largest size the caller passes to fetchmany
MaxFetch == 2
\* the service's response size ceiling, in the unit of the row weights
RespLimit == 4
\* requests of one execute after which the model starts no further for-loop
MaxReqs == 10
\* BaseAuroraDataAPICursor.__init__: self.arraysize = 1000
DefaultArraySize == 1000

Min(a, b) == IF a < b THEN a ELSE b
Max(a, b) == IF a > b THEN a ELSE b

\* the element of a one-element set; `Only({ e(x) : x \in {v} })` is e with x
\* bound to the value of v, computed once
Only(S) == CHOOSE x \in S : TRUE

\* ---- the service's side of a statement
\* A statement's result has `n` rows, numbered 1..n in result order; rows h..n
\* are heavy (weight hw), rows before h weigh 1.  A response is refused as
\* oversize when the rows it would carry weigh more than RespLimit: a heavy row
\* either fits a response alone but not with another heavy row, or fits none.
HeavyWeights == {RespLimit - 1, RespLimit + 1}
StmtsOf(n) == { [n |-> n, h |-> n + 1, hw |-> RespLimit - 1] } \cup
              { [n |-> n, h |-> h, hw |-> hw] :
                  h \in Max(1, n + 1 - MaxHeavy)..n, hw \in HeavyWeights }
\* the async cursor's model is given the smaller results
RowsBound == IF kind = "sync" THEN MaxRows ELSE MaxRowsAsync
Stmts == UNION { StmtsOf(n) : n \in 0..RowsBound }
NoStmt == [n |-> 0, h |-> 1, hw |-> RespLimit - 1]

Row(s, i) == i
Rows(s) == [i \in 1..s.n |-> Row(s, i)]
\* weight of rows a..b of the result
Weight(s, a, b) ==
    IF b < a THEN 0
    ELSE LET light == Max(0, Min(b, s.h - 1) - a + 1)
         IN  light + ((b - a + 1) - light) * s.hw
Fits(s) == Weight(s, 1, s.n) <= RespLimit

\* FETCH n FROM <cursor> at position pos (0: before the first row, n+1: after the
\* last): the next n rows; the cursor ends on the last row returned, or after
\* the last row when fewer than n were left.
SrvFetch(s, pos, n) ==
    LET last == Min(pos + n, s.n)
    IN  [rows |-> [i \in 1..Max(0, last - pos) |-> Row(s, pos + i)],
         pos  |-> IF pos + n <= s.n THEN pos + n ELSE s.n + 1,
         over |-> Weight(s, pos + 1, last) > RespLimit]

\* MOVE RELATIVE d FROM <cursor>
SrvMove(s, pos, d) == Max(0, Min(s.n + 1, pos + d))

\* ---- requests and their failures
\* the transaction id the Connection handed to the Cursor in cursor()
CursorTxn == 1
\* execute_statement_args without "sql": the statement the arguments were made
\* for (operation and parameters) and the transaction id
Args(s) == [q |-> s, txn |-> CursorTxn]
NoArgs == [q |-> NoStmt, txn |-> NoTxn]
\* the arguments of an execute before the latest one, whichever it was
EarlierStmt == [n |-> -1, h |-> 0, hw |-> 0]
EarlierArgs == Args(EarlierStmt)
\* an execute_statement request: what its sql is, and the arguments around it
Request(op, n, mode, args) ==
    [op |-> op, n |-> n, mode |-> mode, q |-> args.q, txn |-> args.txn]
Fetch(args, n) == Request("FETCH", n, "none", args)
Move(args, mode, n) == Request("MOVE", n, mode, args)
Declare(args) == Request("DECLARE", 0, "none", args)
Direct(args) == Request("EXECUTE", 0, "none", args)

\* the exception classes of the client library a request may end with: the two
\* the cursor has handlers for, and one standing for every other ClientError
Categories == {"BadRequestException", "DatabaseErrorException", "StatementTimeoutException"}
Ok == [msg |-> "ok", cat |-> "none"]
Fail(msg, cat) == [msg |-> msg, cat |-> cat]
\* the answer to a mutating statement
Updated == [msg |-> "updated", cat |-> "none"]
NoFault == [op |-> "none", cat |-> "none"]
Fault(op, cat) == [op |-> op, cat |-> cat]
\* what the service does to the requests of one fetch call: the class that
\* carries a refusal for size, and the answer to a MOVE
MoveAnswers == {"ok", "BadRequestException"}
\* the service as the cursor's handlers expect it
DefaultEnv == [cat |-> "BadRequestException", mv |-> "ok"]
FetchEnvs == { [cat |-> "BadRequestException", mv |-> m] : m \in MoveAnswers } \cup
             { [cat |-> "DatabaseErrorException", mv |-> "ok"] }

\* ---- the fetch loop (the body of `while True` in __iter__ / _fetch_paginated_records)
\* up to its first yield, break or raise
rewind(rpp) == -rpp

\* the page size halved twice at one failure
halve_twice(rpp) == rpp \div 4

halve(rpp) == rpp \div 2

RECURSIVE FetchLoop(_, _, _)
\* s: the statement of the service's cursor, a: the arguments the generator took
\* from _paging_state when it started, S: the Cursor
FetchLoop(s, a, S) ==
    Only({
        LET rpp  == S.ps.records_per_page
            sent == Append(S.log, Fetch(a, rpp))
        IN  IF ~page.over
            THEN [out |-> IF Len(page.rows) = 0 THEN "stop" ELSE "page", rows |-> page.rows,
                  S |-> [S EXCEPT !.pos = page.pos, !.log = sent]]
            ELSE IF S.env.cat # "BadRequestException"
            \* no handler for this class: the failure leaves the generator as it is
            THEN [out |-> S.env.cat, rows |-> <<>>,
                  S |-> [S EXCEPT !.pos = page.pos, !.log = sent, !.ov = TRUE,
                                  !.fault = Fault("FETCH", S.env.cat)]]
            ELSE IF rpp > 1
            THEN IF S.env.mv # "ok"
                 \* scroll() has no handler: its failure leaves before the halving
                 THEN [out |-> S.env.mv, rows |-> <<>>,
                       S |-> [S EXCEPT !.pos = page.pos, !.ov = TRUE,
                                       !.log = Append(sent, Move(S.ps.args, "RELATIVE", rewind(rpp))),
                                       !.fault = Fault("MOVE", S.env.mv)]]
                 ELSE Only({ FetchLoop(s, a, S2) :
                        S2 \in {[S EXCEPT !.ps.records_per_page = halve(rpp),
                                          !.pos = SrvMove(s, page.pos, rewind(rpp)),
                                          !.log = Append(sent, Move(S.ps.args, "RELATIVE", rewind(rpp))),
                                          !.ov = TRUE]} })
            ELSE [out |-> "DatabaseError", rows |-> <<>>,
                  S |-> [S EXCEPT !.pos = page.pos, !.log = sent, !.ov = TRUE,
                                  !.fault = Fault("FETCH", S.env.cat)]]
        : page \in {SrvFetch(s, S.pos, S.ps.records_per_page)} })

\* ---- the Cursor's generators
\* The fields a fetch reads and writes, as one value: cr = _current_response,
\* ps = _paging_state, it = _iterator, ri = _record_index, pi = _page_iterator,
\* pos = the position of the service's named cursor, log = the requests sent,
\* env = what the service does to the call's requests, fault = the failure that
\* ended the call.
Cur == [cr |-> current_response, ps |-> paging_state, it |-> iterator,
        ri |-> record_index, pi |-> page_iterator, pos |-> srv.pos,
        log |-> reqs, ov |-> oversized,
        env |-> DefaultEnv, fault |-> NoFault]

NoRow == 0
NoGen == [st |-> "none", paged |-> FALSE, buf |-> <<>>, args |-> NoArgs]
NewGen == [st |-> "new", paged |-> FALSE, buf |-> <<>>, args |-> NoArgs]
\* _current_response: the keys of the response, its "records" (empty without the
\* key) and its "numberOfRecordsUpdated"
NoResponse == [set |-> FALSE, records |-> <<>>, keys |-> {}, numberOfRecordsUpdated |-> 0]
\* the response to a statement that returns rows
RowsResponse(s) ==
    [set |-> TRUE, records |-> Rows(s), keys |-> {"records", "numberOfRecordsUpdated"},
     numberOfRecordsUpdated |-> 0]
\* the response to a mutating statement that touched s.n rows: no "records" key
UpdateResponse(s) ==
    [set |-> TRUE, records |-> <<>>, keys |-> {"numberOfRecordsUpdated"},
     numberOfRecordsUpdated |-> s.n]
NoPaging == [set |-> FALSE, records_per_page |-> 0, args |-> NoArgs, pg_cursor_name |-> "none"]
NoPageIterator == [st |-> "unset", buf |-> <<>>, args |-> NoArgs]

\* a paginating generator resumed with `buf` left of its page: the next record of
\* the page, or the fetch loop for the next page
PagedPull(S, buf, a) ==
    IF buf # <<>>
    THEN [S |-> S, out |-> "row", row |-> Head(buf), buf |-> Tail(buf)]
    ELSE Only({
           IF f.out = "page"
           THEN [S |-> f.S, out |-> "row", row |-> Head(f.rows), buf |-> Tail(f.rows)]
           ELSE [S |-> f.S, out |-> f.out, row |-> NoRow, buf |-> <<>>]
           : f \in {FetchLoop(srv.s, a, S)} })

\* next() on a generator g made by SyncAuroraDataAPICursor.__iter__
GenNext(g, S) ==
    IF g.st \in {"none", "done"}
    THEN [g |-> g, S |-> S, out |-> IF g.st = "none" THEN "TypeError" ELSE "stop", row |-> NoRow]
    ELSE IF g.st = "new" /\ ~S.ps.set /\ ~S.cr.set
    THEN [g |-> [g EXCEPT !.st = "done"], S |-> S, out |-> "AttributeError", row |-> NoRow]
    ELSE LET g1 == IF g.st = "new"
                   THEN [st |-> "run", paged |-> S.ps.set,
                         buf |-> IF S.ps.set THEN <<>> ELSE S.cr.records,
                         args |-> S.ps.args]
                   ELSE g
         IN  IF g1.paged
             THEN Only({ [g |-> IF p.out = "row" THEN [g1 EXCEPT !.buf = p.buf]
                                    ELSE [g1 EXCEPT !.st = "done", !.buf = <<>>, !.args = NoArgs],
                              S |-> p.S, out |-> p.out, row |-> p.row]
                         : p \in {PagedPull(S, g1.buf, g1.args)} })
             ELSE IF g1.buf # <<>>
                  THEN [g |-> [g1 EXCEPT !.buf = Tail(g1.buf)], S |-> S,
                        out |-> "row", row |-> Head(g1.buf)]
                  ELSE [g |-> [g1 EXCEPT !.st = "done"], S |-> S, out |-> "stop", row |-> NoRow]

\* next(self._iterator) of the sync cursor
NextSync(S) ==
    Only({ [S |-> [r.S EXCEPT !.it = r.g], out |-> r.out, row |-> r.row]
           : r \in {GenNext(S.it, S)} })

\* AsyncAuroraDataAPICursor.__anext__
anext(S) ==
    IF S.ps.set
    THEN LET pi1 == IF S.pi.st = "unset"
                    THEN [st |-> "run", buf |-> <<>>, args |-> S.ps.args] ELSE S.pi
         IN  IF pi1.st = "done"
             THEN [S |-> [S EXCEPT !.pi = pi1], out |-> "stop", row |-> NoRow]
             ELSE Only({ [S |-> [p.S EXCEPT !.pi = IF p.out = "row"
                                                   THEN [pi1 EXCEPT !.buf = p.buf]
                                                   ELSE [NoPageIterator EXCEPT !.st = "done"]],
                           out |-> p.out, row |-> p.row]
                         : p \in {PagedPull(S, pi1.buf, pi1.args)} })
    ELSE LET ri1 == IF S.ri = -1 THEN 0 ELSE S.ri
         IN  IF ~S.cr.set
             THEN [S |-> [S EXCEPT !.ri = ri1], out |-> "AttributeError", row |-> NoRow]
             ELSE IF ri1 >= Len(S.cr.records)
                  THEN [S |-> [S EXCEPT !.ri = ri1], out |-> "stop", row |-> NoRow]
                  ELSE [S |-> [S EXCEPT !.ri = ri1 + 1], out |-> "row",
                        row |-> S.cr.records[ri1 + 1]]

\* one step of the cursor's own row sequence
Next1(S) == IF kind = "sync" THEN NextSync(S) ELSE anext(S)

\* ---- the fetch calls: [S, ret, raised]
fetchone(S) ==
    Only({ [S |-> r.S,
            ret |-> IF r.out = "row" THEN <<r.row>> ELSE <<>>,
            raised |-> IF r.out \in {"row", "stop"} THEN "none" ELSE r.out]
           : r \in {Next1(S)} })

RECURSIVE FetchManyLoop(_, _, _)
FetchManyLoop(S, size, results) ==
    IF size > 0
    THEN Only({
             IF r.raised # "none" THEN [S |-> r.S, ret |-> <<>>, raised |-> r.raised]
             ELSE IF r.ret = <<>> THEN [S |-> r.S, ret |-> results, raised |-> "none"]
             ELSE FetchManyLoop(r.S, size - 1, results \o r.ret)
             : r \in {fetchone(S)} })
    ELSE [S |-> S, ret |-> results, raised |-> "none"]

fetchmany(S, size) == FetchManyLoop(S, size, <<>>)

\* the rows of the cursor's own sequence to its end: list(self._iterator), and the
\* async cursor's `async for record in self`
RECURSIVE Drain(_, _)
Drain(S, results) ==
    Only({
        IF r.out = "row" THEN Drain(r.S, Append(results, r.row))
        ELSE [S |-> r.S, ret |-> results,
              raised |-> IF r.out = "stop" THEN "none" ELSE r.out]
        : r \in {Next1(S)} })

\* a generator of its own run to its end: the sync cursor's `for record in cursor`
RECURSIVE DrainGen(_, _, _)
DrainGen(g, S, results) ==
    Only({
        IF r.out = "row" THEN DrainGen(r.g, r.S, Append(results, r.row))
        ELSE [S |-> r.S, ret |-> results,
              raised |-> IF r.out = "stop" THEN "none" ELSE r.out]
        : r \in {GenNext(g, S)} })

\* fetchall(): list(self._iterator) / the rows of `async for record in self`; a
\* failure leaves the caller without a list
fetchall(S) ==
    Only({ IF r.raised = "none" THEN r ELSE [r EXCEPT !.ret = <<>>]
           : r \in {Drain(S, <<>>)} })

\* `for record in cursor` / `async for record in cursor`: the rows reach the loop
\* body one by one, so those before a failure are delivered
iterate(S) == IF kind = "sync" THEN DrainGen(NewGen, S, <<>>) ELSE Drain(S, <<>>)

\* ---- execute
\* what the direct attempt may end with: a response, or a failure of some class
\* whose message carries the pagination signal, the size signal, or neither
DirectAnswers == {Ok} \cup { Fail(m, c) : m \in {"paginate", "oversize", "error"}, c \in Categories }
DeclareAnswers == {Ok} \cup { Fail("error", c) : c \in Categories }
\* the classes execute() has a handler for
Handled == {"BadRequestException", "DatabaseErrorException"}

\* _start_paginated_query that stores the page size it was given, None included
start_paginated_query_keeps_none(S, args, records_per_page, dans) ==
    IF dans # Ok
    THEN [S |-> [S EXCEPT !.log = Append(S.log, Declare(args)),
                          !.fault = Fault("DECLARE", dans.cat)],
          raised |-> dans.cat]
    ELSE [S |-> [S EXCEPT !.log = Append(S.log, Declare(args)),
                          !.ps = [set |-> TRUE, records_per_page |-> records_per_page,
                                  args |-> args, pg_cursor_name |-> "generated"],
                          !.pos = 0],
          raised |-> "none"]

\* _start_paginated_query(execute_statement_args, records_per_page); 0 is None
start_paginated_query(S, args, records_per_page, dans) ==
    IF dans # Ok
    THEN [S |-> [S EXCEPT !.log = Append(S.log, Declare(args)),
                          !.fault = Fault("DECLARE", dans.cat)],
          raised |-> dans.cat]
    ELSE [S |-> [S EXCEPT !.log = Append(S.log, Declare(args)),
                          !.ps = [set |-> TRUE,
                                  records_per_page |-> IF records_per_page # 0
                                                       THEN records_per_page ELSE arraysize,
                                  args |-> args,
                                  pg_cursor_name |-> "generated"],
                          !.pos = 0],
          raised |-> "none"]

\* what iter(self) / self.__aiter__() leaves in _iterator
MadeIterator == IF kind = "sync" THEN NewGen ELSE [NoGen EXCEPT !.st = "self"]

\* execute() that paginates with the full page size after the size signal too
execute_full_page_after_oversize(S, s, ans, dans) ==
    LET S0 == [S EXCEPT !.cr = NoResponse, !.it = NoGen, !.ps = NoPaging,
                        !.log = <<Direct(Args(s))>>, !.ov = FALSE, !.pos = 0,
                        !.pi = IF S.pi.st = "run"
                               THEN [S.pi EXCEPT !.args = EarlierArgs] ELSE S.pi]
    IN  IF ans = Ok
        THEN [S |-> [S0 EXCEPT !.cr = RowsResponse(s), !.it = MadeIterator],
              raised |-> "none"]
        ELSE IF ans = Updated
        THEN [S |-> [S0 EXCEPT !.cr = UpdateResponse(s), !.it = MadeIterator],
              raised |-> "none"]
        ELSE IF ans.cat \in Handled /\ ans.msg \in {"paginate", "oversize"}
        THEN LET p == start_paginated_query(S0, Args(s), 0, dans)
             IN  IF p.raised = "none"
                 THEN [S |-> [p.S EXCEPT !.it = MadeIterator], raised |-> "none"]
                 ELSE p
        ELSE [S |-> [S0 EXCEPT !.fault = Fault("EXECUTE", ans.cat)],
              raised |-> IF ans.cat \in Handled THEN "DatabaseError" ELSE ans.cat]

\* execute(operation, parameters): the three fields are cleared, then the direct
\* attempt; the async cursor's _record_index and _page_iterator are not touched
execute(S, s, ans, dans) ==
    LET S0 == [S EXCEPT !.cr = NoResponse, !.it = NoGen, !.ps = NoPaging,
                        !.log = <<Direct(Args(s))>>, !.ov = FALSE, !.pos = 0,
                        \* no assignment of the code: the arguments a page generator
                        \* still running took from _paging_state are now earlier ones
                        !.pi = IF S.pi.st = "run"
                               THEN [S.pi EXCEPT !.args = EarlierArgs] ELSE S.pi]
    IN  IF ans = Ok
        THEN [S |-> [S0 EXCEPT !.cr = RowsResponse(s), !.it = MadeIterator],
              raised |-> "none"]
        ELSE IF ans = Updated
        THEN [S |-> [S0 EXCEPT !.cr = UpdateResponse(s), !.it = MadeIterator],
              raised |-> "none"]
        ELSE IF ans.cat \in Handled /\ ans.msg \in {"paginate", "oversize"}
        THEN LET p == start_paginated_query(S0, Args(s),
                          IF ans.msg = "paginate" THEN 0 ELSE Max(1, arraysize \div 2), dans)
             IN  IF p.raised = "none"
                 THEN [S |-> [p.S EXCEPT !.it = MadeIterator], raised |-> "none"]
                 ELSE p
        ELSE [S |-> [S0 EXCEPT !.fault = Fault("EXECUTE", ans.cat)],
              raised |-> IF ans.cat \in Handled THEN "DatabaseError" ELSE ans.cat]

\* ---- scroll
MaxScroll == 1
ScrollValues == (0 - MaxScroll)..MaxScroll
Modes == {"relative", "absolute"}
\* mode.upper()
Upper(mode) ==
    CASE mode = "relative" -> "RELATIVE"
      [] mode = "absolute" -> "ABSOLUTE"

\* MOVE <MODE> d FROM <cursor>: ABSOLUTE d goes to row d, counted from the end
\* when d is negative
SrvMoveMode(s, pos, MODE, d) ==
    IF MODE = "RELATIVE" THEN SrvMove(s, pos, d)
    ELSE IF d >= 0 THEN Min(d, s.n + 1)
    ELSE Max(0, s.n + 1 + d)

\* scroll() that sends its MOVE whether or not pagination is active
scroll_unchecked(S, s, value, mode, mans) ==
    LET sent == [S EXCEPT !.log = Append(S.log, Move(S.ps.args, Upper(mode), value))]
    IN  IF mans # "ok"
        THEN [S |-> [sent EXCEPT !.fault = Fault("MOVE", mans)], raised |-> mans]
        ELSE [S |-> [sent EXCEPT !.pos = SrvMoveMode(s, S.pos, Upper(mode), value)],
              raised |-> "none"]

\* scroll(value, mode); s: the statement of the service's cursor, mans: what the
\* service answers to the MOVE.  The request has no handler.
scroll(S, s, value, mode, mans) ==
    IF ~S.ps.set
    THEN [S |-> S, raised |-> "InterfaceError"]
    ELSE LET sent == [S EXCEPT !.log = Append(S.log, Move(S.ps.args, Upper(mode), value))]
         IN  IF mans # "ok"
             THEN [S |-> [sent EXCEPT !.fault = Fault("MOVE", mans)], raised |-> mans]
             ELSE [S |-> [sent EXCEPT !.pos = SrvMoveMode(s, S.pos, Upper(mode), value)],
                   raised |-> "none"]

\* ---- rowcount
\* the most rows a mutating statement touches
MaxUpdated == 2
\* rowcount that reads numberOfRecordsUpdated before it looks for records
rowcount_updates_first(cr) ==
    IF cr.set /\ "numberOfRecordsUpdated" \in cr.keys THEN cr.numberOfRecordsUpdated
    ELSE IF cr.set /\ "records" \in cr.keys THEN Len(cr.records)
    ELSE -1

\* the rowcount property
rowcount(cr) ==
    IF cr.set /\ "records" \in cr.keys THEN Len(cr.records)
    ELSE IF cr.set /\ "numberOfRecordsUpdated" \in cr.keys THEN cr.numberOfRecordsUpdated
    ELSE -1

\* ---- executemany
\* _page_input's page_size
PageSize == 1000
\* the longest input has MaxBatches full pages and one more set; the short
\* inputs have up to MaxSmall sets
MaxBatches == 2
MaxSmall == 2

\* a parameter set: a mapping {"x": i}, or the array [i], which is not a mapping
ParamSet(i) == [mapping |-> TRUE, x |-> i]
ArrayParams(i) == [mapping |-> FALSE, x |-> i]
Lengths == (0..MaxSmall) \cup { m * PageSize + d : m \in 1..MaxBatches, d \in {0 - 1, 0, 1} }
\* seq_of_parameters: mappings, or mappings with an array as first or last set
ParamSeqs ==
    { [i \in 1..k |-> ParamSet(i)] : k \in Lengths } \cup
    { [i \in 1..k |-> IF i = b THEN ArrayParams(i) ELSE ParamSet(i)] :
        k \in Lengths \ {0}, b \in {1, PageSize + 1} }

\* list(itertools.islice(iterable, page_size)): what is taken, and what is left
islice(iterable, page_size) ==
    LET n == Min(page_size, Len(iterable))
    IN  [taken |-> SubSeq(iterable, 1, n), left |-> SubSeq(iterable, n + 1, Len(iterable))]

RECURSIVE page_input_full_pages_only(_, _)
\* _page_input that stops at the first page that is not full
page_input_full_pages_only(iterable, page_size) ==
    Only({ IF Len(c.taken) < page_size THEN <<>>
           ELSE <<c.taken>> \o page_input_full_pages_only(c.left, page_size)
           : c \in {islice(iterable, page_size)} })

RECURSIVE page_input(_, _)
\* _page_input(iterable, page_size): pages are taken until one comes out empty
page_input(iterable, page_size) ==
    Only({ IF c.taken = <<>> THEN <<>>
           ELSE <<c.taken>> \o page_input(c.left, page_size)
           : c \in {islice(iterable, page_size)} })

\* prepare_param for an integer value
prepare_param(param_name, param_value) ==
    [name |-> param_name, value |-> [longValue |-> param_value]]
\* _format_parameter_set(parameters) of a mapping
format_parameter_set(parameters) == <<prepare_param("x", parameters.x)>>

\* a batch_execute_statement request
Batch(args, sets) ==
    [op |-> "BATCH", n |-> Len(sets), mode |-> "none", q |-> args.q, txn |-> args.txn,
     parameterSets |-> sets]

RECURSIVE BatchLoop(_, _, _, _, _)
\* the loop of executemany over the pages from batch i on; failing: the request
\* the service rejects (0: none), in category cat
BatchLoop(S, batches, i, s, ans) ==
    IF i > Len(batches) THEN [S |-> S, raised |-> "none"]
    ELSE IF \E j \in DOMAIN batches[i] : ~batches[i][j].mapping
    THEN [S |-> S, raised |-> "NotSupportedError"]
    ELSE Only({
           IF i = ans.failing
           THEN [S |-> [sent EXCEPT !.fault = Fault("BATCH", ans.cat)],
                 raised |-> IF ans.cat = "BadRequestException" THEN "DatabaseError"
                            ELSE ans.cat]
           ELSE BatchLoop(sent, batches, i + 1, s, ans)
           : sent \in {[S EXCEPT !.log = Append(S.log,
                           Batch(Args(s), [j \in DOMAIN batches[i] |->
                                             format_parameter_set(batches[i][j])]))]} })

\* executemany that starts like execute: the result state is reset first
executemany_resets(S, s, seq_of_parameters, ans) ==
    BatchLoop([S EXCEPT !.log = <<>>, !.cr = NoResponse, !.it = NoGen, !.ps = NoPaging],
              page_input(seq_of_parameters, PageSize), 1, s, ans)

\* executemany(operation, seq_of_parameters)
executemany(S, s, seq_of_parameters, ans) ==
    BatchLoop([S EXCEPT !.log = <<>>], page_input(seq_of_parameters, PageSize), 1, s, ans)

\* ---- the error classifier
\* Characters are one-letter strings, a text is a sequence of them.
Digits == {"0", "1", "2", "3", "4", "5", "6", "7", "8", "9"}
Letters == {"P", "S", "X"}
\* \d+ and \w+ over a whole text
IsDigits(text) == text # <<>> /\ \A i \in DOMAIN text : text[i] \in Digits
IsWord(text) == text # <<>> /\ \A i \in DOMAIN text : text[i] \in Digits \cup Letters
DigitValue(c) ==
    CASE c = "0" -> 0 [] c = "1" -> 1 [] c = "2" -> 2 [] c = "3" -> 3 [] c = "4" -> 4
      [] c = "5" -> 5 [] c = "6" -> 6 [] c = "7" -> 7 [] c = "8" -> 8 [] c = "9" -> 9
RECURSIVE int(_)
\* int(text) of a text of digits
int(text) ==
    IF text = <<>> THEN 0
    ELSE int(SubSeq(text, 1, Len(text) - 1)) * 10 + DigitValue(text[Len(text)])

\* MySQLErrorCodes and PostgreSQLErrorCodes: the entries the model uses, by code
\* and by SQLSTATE
MySQLErrorCodes ==
    [code \in {1064, 1146} |-> IF code = 1064 THEN "ER_PARSE_ERROR" ELSE "ER_NO_SUCH_TABLE"]
PostgreSQLErrorCodes ==
    [state \in {<<"4", "2", "6", "0", "1">>, <<"4", "2", "P", "0", "1">>} |->
        IF state = <<"4", "2", "6", "0", "1">> THEN "ER_SYNTAX_ERR" ELSE "ER_UNDEF_TABLE"]
\* _DatabaseErrorFactory.from_code: the class named in the table; a code that is
\* not in the table raises ValueError
from_code(err_index, err_code) ==
    IF err_code \in DOMAIN err_index
    THEN [raised |-> "none", cls |-> err_index[err_code]]
    ELSE [raised |-> "ValueError", cls |-> "none"]

\* A service message, by the parts the two patterns look at:
\*   <text> <sep> <marker>: <num>; SQLState: <state><tail>
\* error: the text holds "ERROR: "; newline: a line break follows it in the text
Nums == {<<"1", "0", "6", "4">>, <<"1", "1", "4", "6">>, <<"1", "5">>, <<"7">>, <<>>}
States == {<<"4", "2", "0", "0", "0">>, <<"4", "2", "S", "0", "2">>,
           <<"4", "2", "P", "0", "1">>, <<"4", "2", "6", "0", "1">>,
           <<"X", "X", "0", "0", "0">>, <<>>}
Messages ==
    [error : BOOLEAN, newline : BOOLEAN, sep : {";", "\n ", ","},
     marker : {"Error code", "Position", "none"}, num : Nums, state : States,
     tail : {"", "."}]
EmptyMessage ==
    [error |-> FALSE, newline |-> FALSE, sep |-> ",", marker |-> "none", num |-> <<>>,
     state |-> <<>>, tail |-> ""]

\* re.search(r"Error code: (\d+); SQLState: (\d+)$", error_msg)
SearchMySQL(error_msg) ==
    [matched |-> /\ error_msg.marker = "Error code"
                 /\ IsDigits(error_msg.num)
                 /\ IsDigits(error_msg.state)
                 /\ error_msg.tail = "",
     group1 |-> error_msg.num, group2 |-> error_msg.state]
\* re.search(r"ERROR: .*(?:\n |;) Position: (\d+); SQLState: (\w+)$", error_msg)
SearchPostgreSQL(error_msg) ==
    [matched |-> /\ error_msg.error /\ ~error_msg.newline
                 /\ error_msg.sep \in {"\n ", ";"}
                 /\ error_msg.marker = "Position"
                 /\ IsDigits(error_msg.num)
                 /\ IsWord(error_msg.state)
                 /\ error_msg.tail = "",
     group1 |-> error_msg.num, group2 |-> error_msg.state]

\* the failures handed to the classifier: a client error with its response, or an
\* exception without a response attribute
NoPayload == [Error |-> [Message |-> EmptyMessage]]
OriginalErrors ==
    { [has_response |-> TRUE, response |-> [Error |-> [Message |-> m]]] : m \in Messages }
      \cup { [has_response |-> FALSE, response |-> NoPayload] }

NoError == [cls |-> "none", family |-> "none", args |-> "none", attrs |-> {}, response |-> NoPayload]
\* DatabaseError(original_error): no attribute is set on it
GenericError(original_error) ==
    [cls |-> "DatabaseError", family |-> "DatabaseError", args |-> original_error,
     attrs |-> {}, response |-> NoPayload]
\* error_class(error_msg) with error.response set
TypedError(family, cls, error_msg, original_error) ==
    [cls |-> cls, family |-> family, args |-> error_msg, attrs |-> {"response"},
     response |-> IF original_error.has_response THEN original_error.response ELSE NoPayload]

\* the exception a lookup raised, leaving the classifier as it is
LookupError(cls, original_error) ==
    [cls |-> cls, family |-> "Exception", args |-> original_error, attrs |-> {},
     response |-> NoPayload]

\* _get_database_error without its try block: a failed lookup leaves it
get_database_error_unguarded(original_error) ==
    LET error_msg == IF original_error.has_response
                     THEN original_error.response.Error.Message ELSE EmptyMessage
        my == SearchMySQL(error_msg)
        pg == SearchPostgreSQL(error_msg)
    IN  IF my.matched
        THEN LET c == from_code(MySQLErrorCodes, int(my.group1))
             IN  IF c.raised = "none"
                 THEN TypedError("MySQLError", c.cls, error_msg, original_error)
                 ELSE LookupError(c.raised, original_error)
        ELSE IF pg.matched
        THEN LET c == from_code(PostgreSQLErrorCodes, pg.group2)
             IN  IF c.raised = "none"
                 THEN TypedError("PostgreSQLError", c.cls, error_msg, original_error)
                 ELSE LookupError(c.raised, original_error)
        ELSE GenericError(original_error)

\* _get_database_error(original_error); an exception inside the try block is
\* swallowed and the generic error is returned
get_database_error(original_error) ==
    LET error_msg == IF original_error.has_response
                     THEN original_error.response.Error.Message ELSE EmptyMessage
        my == SearchMySQL(error_msg)
        pg == SearchPostgreSQL(error_msg)
    IN  IF my.matched
        THEN LET c == from_code(MySQLErrorCodes, int(my.group1))
             IN  IF c.raised = "none"
                 THEN TypedError("MySQLError", c.cls, error_msg, original_error)
                 ELSE GenericError(original_error)
        ELSE IF pg.matched
        THEN LET c == from_code(PostgreSQLErrorCodes, pg.group2)
             IN  IF c.raised = "none"
                 THEN TypedError("PostgreSQLError", c.cls, error_msg, original_error)
                 ELSE GenericError(original_error)
        ELSE GenericError(original_error)

\* ---- execute with parameters
\* the `parameters` argument by its type and length: None, a mapping, an array
Parameters ==
    { [type |-> "NoneType", len |-> 0] } \cup [type : {"dict", "list"}, len : 0..1]

\* execute() that formats the parameters only after the direct attempt was sent
execute_formats_after_sending(S, s, parameters, ans, dans) ==
    IF parameters.len > 0 /\ parameters.type # "dict"
    THEN [S |-> [S EXCEPT !.cr = NoResponse, !.it = NoGen, !.ps = NoPaging,
                          !.log = <<Direct(Args(s))>>, !.ov = FALSE, !.pos = 0],
          raised |-> "NotSupportedError"]
    ELSE execute(S, s, ans, dans)

\* execute(operation, parameters): `if parameters:` formats them before the
\* request is made, and _format_parameter_set raises for what is not a mapping
execute_with_parameters(S, s, parameters, ans, dans) ==
    IF parameters.len > 0 /\ parameters.type # "dict"
    THEN [S |-> [S EXCEPT !.cr = NoResponse, !.it = NoGen, !.ps = NoPaging,
                          !.log = <<>>, !.ov = FALSE, !.pos = 0],
          raised |-> "NotSupportedError"]
    ELSE execute(S, s, ans, dans)

\* ---- the value codec: prepare_param and _render_value
\* A Python value is a record with its `type`; a text is a sequence of characters.
DigitChar(d) ==
    CASE d = 0 -> "0" [] d = 1 -> "1" [] d = 2 -> "2" [] d = 3 -> "3" [] d = 4 -> "4"
      [] d = 5 -> "5" [] d = 6 -> "6" [] d = 7 -> "7" [] d = 8 -> "8" [] d = 9 -> "9"
RECURSIVE Pow10(_)
Pow10(k) == IF k = 0 THEN 1 ELSE 10 * Pow10(k - 1)
\* "%0<w>d" % n
ZeroPadded(n, w) == [i \in 1..w |-> DigitChar((n \div Pow10(w - i)) % 10)]

\* str(datetime.date), str(datetime.time), str(datetime.datetime)
str_date(v) ==
    ZeroPadded(v.year, 4) \o <<"-">> \o ZeroPadded(v.month, 2) \o <<"-">> \o ZeroPadded(v.day, 2)
str_time(v) ==
    ZeroPadded(v.hour, 2) \o <<":">> \o ZeroPadded(v.minute, 2) \o <<":">>
      \o ZeroPadded(v.second, 2)
      \o (IF v.microsecond = 0 THEN <<>> ELSE <<".">> \o ZeroPadded(v.microsecond, 6))
str_datetime(v) == str_date(v) \o <<" ">> \o str_time(v)
\* str(Decimal) of sign, coefficient digits and an exponent <= 0
str_decimal(v) ==
    LET left == Len(v.digits) + v.exponent
        sign == IF v.sign = 1 THEN <<"-">> ELSE <<>>
    IN  IF v.exponent = 0 THEN sign \o v.digits
        ELSE IF left > 0
        THEN sign \o SubSeq(v.digits, 1, left) \o <<".">>
                  \o SubSeq(v.digits, left + 1, Len(v.digits))
        ELSE sign \o <<"0", ".">> \o [i \in 1..(0 - left) |-> "0"] \o v.digits
\* str(param_value) for the types prepare_param stringifies
str(v) ==
    CASE v.type = "date" -> str_date(v)
      [] v.type = "time" -> str_time(v)
      [] v.type = "datetime" -> str_datetime(v)
      [] v.type = "Decimal" -> str_decimal(v)

\* _data_api_type_map.get(type(param_value), "stringValue"): the exact type
data_api_type(type) ==
    CASE type = "bytes" -> "blobValue"
      [] type = "bool" -> "booleanValue"
      [] type = "float" -> "doubleValue"
      [] type = "int" -> "longValue"
      [] OTHER -> "stringValue"
\* _data_api_type_hint_map, "none" for a type that is not in it
data_api_type_hint(type) ==
    CASE type = "date" -> "DATE"
      [] type = "time" -> "TIME"
      [] type = "datetime" -> "TIMESTAMP"
      [] type = "Decimal" -> "DECIMAL"
      [] OTHER -> "none"

\* prepare_param as isinstance() would have it: a bool is an int, a datetime a date
prepare_param_isinstance(param_value) ==
    IF param_value.type = "NoneType"
    THEN [value |-> [tag |-> "isNull", scalar |-> TRUE], typeHint |-> "none"]
    ELSE LET type == CASE param_value.type = "bool" -> "int"
                       [] param_value.type = "datetime" -> "date"
                       [] OTHER -> param_value.type
             tag  == data_api_type(type)
         IN  [value |-> [tag |-> tag,
                         scalar |-> IF tag = "stringValue" /\ param_value.type # "str"
                                    THEN str(param_value) ELSE param_value.v],
              typeHint |-> data_api_type_hint(type)]

\* prepare_param(param_name, param_value) without the name: the tagged value
\* and the type hint
prepare_param_value(param_value) ==
    IF param_value.type = "NoneType"
    THEN [value |-> [tag |-> "isNull", scalar |-> TRUE], typeHint |-> "none"]
    ELSE LET tag == data_api_type(param_value.type)
         IN  [value |-> [tag |-> tag,
                         scalar |-> IF tag = "stringValue" /\ param_value.type # "str"
                                    THEN str(param_value) ELSE param_value.v],
              typeHint |-> data_api_type_hint(param_value.type)]

\* datetime.date.fromisoformat: YYYY-MM-DD
date_fromisoformat(text) ==
    IF /\ Len(text) = 10 /\ text[5] = "-" /\ text[8] = "-"
       /\ IsDigits(SubSeq(text, 1, 4)) /\ IsDigits(SubSeq(text, 6, 7))
       /\ IsDigits(SubSeq(text, 9, 10))
    THEN [type |-> "date", year |-> int(SubSeq(text, 1, 4)),
          month |-> int(SubSeq(text, 6, 7)), day |-> int(SubSeq(text, 9, 10))]
    ELSE [type |-> "ValueError"]
\* datetime.time.fromisoformat: HH:MM:SS with an optional .ffffff
time_fromisoformat(text) ==
    IF /\ Len(text) \in {8, 15} /\ text[3] = ":" /\ text[6] = ":"
       /\ IsDigits(SubSeq(text, 1, 2)) /\ IsDigits(SubSeq(text, 4, 5))
       /\ IsDigits(SubSeq(text, 7, 8))
       /\ Len(text) = 15 => text[9] = "." /\ IsDigits(SubSeq(text, 10, 15))
    THEN [type |-> "time", hour |-> int(SubSeq(text, 1, 2)),
          minute |-> int(SubSeq(text, 4, 5)), second |-> int(SubSeq(text, 7, 8)),
          microsecond |-> IF Len(text) = 15 THEN int(SubSeq(text, 10, 15)) ELSE 0]
    ELSE [type |-> "ValueError"]
\* datetime.datetime.fromisoformat: a date, one separator character, a time
datetime_fromisoformat(text) ==
    IF Len(text) < 12 THEN [type |-> "ValueError"]
    ELSE LET d == date_fromisoformat(SubSeq(text, 1, 10))
             c == time_fromisoformat(SubSeq(text, 12, Len(text)))
         IN  IF d.type = "ValueError" \/ c.type = "ValueError"
             THEN [type |-> "ValueError"]
             ELSE [type |-> "datetime", year |-> d.year, month |-> d.month, day |-> d.day,
                   hour |-> c.hour, minute |-> c.minute, second |-> c.second,
                   microsecond |-> c.microsecond]
RECURSIVE StripZeros(_)
\* the coefficient without leading zeros, one digit at least
StripZeros(digits) ==
    IF Len(digits) > 1 /\ Head(digits) = "0" THEN StripZeros(Tail(digits)) ELSE digits
\* Decimal(text) of [-]digits[.digits]
Decimal(text) ==
    LET neg   == text # <<>> /\ Head(text) = "-"
        body  == IF neg THEN Tail(text) ELSE text
        dots  == {i \in DOMAIN body : body[i] = "."}
        point == IF dots = {} THEN Len(body) + 1 ELSE CHOOSE i \in dots : TRUE
        whole == SubSeq(body, 1, point - 1)
        frac  == SubSeq(body, point + 1, Len(body))
    IN  IF Cardinality(dots) <= 1 /\ IsDigits(whole \o frac)
        THEN [type |-> "Decimal", sign |-> IF neg THEN 1 ELSE 0,
              digits |-> StripZeros(whole \o frac), exponent |-> 0 - Len(frac)]
        ELSE [type |-> "InvalidOperation"]

\* the Python type a tagged scalar comes back as when nothing converts it
scalar_type(tag) ==
    CASE tag = "blobValue" -> "bytes"
      [] tag = "booleanValue" -> "bool"
      [] tag = "doubleValue" -> "float"
      [] tag = "longValue" -> "int"
      [] tag = "stringValue" -> "str"
\* _render_value(value, col_desc) of a scalar; type_code: col_desc.type_code
render_value(value, type_code) ==
    IF value.tag = "isNull" /\ value.scalar THEN [type |-> "NoneType"]
    ELSE IF type_code = "Decimal" THEN Decimal(value.scalar)
    ELSE IF type_code = "date" THEN date_fromisoformat(value.scalar)
    ELSE IF type_code = "time" THEN time_fromisoformat(value.scalar)
    ELSE IF type_code = "datetime" THEN datetime_fromisoformat(value.scalar)
    ELSE [type |-> scalar_type(value.tag), v |-> value.scalar]

\* ---- the Cursor's actions
NoDescription == [set |-> FALSE, cols |-> <<>>]
\* the two factory objects of exceptions.py and the names their tables hold
Factories == {"MySQLError", "PostgreSQLError"}
err_index(f) == IF f = "MySQLError" THEN MySQLErrorCodes ELSE PostgreSQLErrorCodes
MemberNames(f) == { err_index(f)[c] : c \in DOMAIN err_index(f) }
\* no class: the attribute is not set on the factory
NoClass == [name |-> "none", base |-> "none", id |-> 0]
\* the factories after import: no class was made yet
NoClasses == [dict |-> [f \in Factories |-> [a \in MemberNames(f) |-> NoClass]], made |-> 0]
\* the Connection's coroutines
Tasks == {1, 2}
NoTasks == [t \in Tasks |-> [at |-> "idle", cur |-> NoTxn]]
Idle == [op |-> "idle", at |-> "none", ans |-> Ok, todo |-> <<>>]
NoCall == [op |-> "none", value |-> 0, mode |-> "none"]

Install(S) ==
    /\ current_response' = S.cr
    /\ paging_state' = S.ps
    /\ iterator' = S.it
    /\ record_index' = S.ri
    /\ page_iterator' = S.pi
    /\ reqs' = S.log
    /\ oversized' = S.ov
    /\ fault' = S.fault

Mix(h, name) == IF h \in {"none", name} THEN name ELSE "mixed"

\* BaseAuroraDataAPICursor.__init__, but for continue_after_timeout
CurFields ==
    /\ kind \in {"sync", "async"}
    /\ arraysize \in (1..MaxArraySize) \cup {DefaultArraySize}
    /\ current_response = NoResponse
    /\ paging_state = NoPaging
    /\ iterator = NoGen
    /\ record_index = -1
    /\ page_iterator = NoPageIterator
    /\ srv = [s |-> NoStmt, pos |-> 0]
    /\ stmt = NoStmt
    /\ via = "none"
    /\ reqs = <<>>
    /\ delivered = <<>>
    /\ ret = <<>>
    /\ raised = "none"
    /\ hist = "none"
    /\ fin = "open"
    /\ oversized = FALSE
    /\ fault = NoFault
    /\ did = NoCall
    /\ error = NoError
    /\ pc = Idle
    /\ inflight = <<>>
    /\ description = NoDescription
    /\ factory = NoClasses
    /\ tasks = NoTasks

\* the Cursor of a Connection made without continue_after_timeout
CurInit == CurFields /\ continue_after_timeout = "None"

\* what an execute leaves; d: what is noted of the call
ExecutedAs(e, s, ans, d) ==
    /\ Install(e.S)
    /\ srv' = IF e.S.ps.set THEN [s |-> s, pos |-> 0] ELSE [s |-> NoStmt, pos |-> 0]
    /\ stmt' = s
    /\ via' = IF e.raised # "none" THEN "failed" ELSE ans.msg
    /\ raised' = e.raised
    /\ delivered' = <<>>
    /\ ret' = <<>>
    /\ hist' = "none"
    /\ fin' = "open"
    /\ did' = d
    /\ UNCHANGED <<kind, arraysize, error>>
    /\ UNCHANGED connVars
    /\ UNCHANGED metaVars
    /\ UNCHANGED stepVars

Executed(e, s, ans) == ExecutedAs(e, s, ans, NoCall)

\* execute(operation): the statement and what the service answers to the direct
\* attempt; a result that fits one response is returned, or pagination is asked
\* for; one that does not fit gets either signal.  `classes`: the classes in
\* which the service reports failures.
ExecuteIn(classes) ==
    \E s \in Stmts,
       ans \in {Ok} \cup { Fail(m, c) : m \in {"paginate", "oversize"}, c \in classes \cap Handled } :
        /\ ans = Ok => Fits(s)
        /\ ans.msg = "oversize" => ~Fits(s)
        /\ \E e \in {execute(Cur, s, ans, Ok)} : Executed(e, s, ans)

\* execute(operation) that ends with a failure: of the direct attempt, or of the DECLARE
ExecuteFailsIn(classes) ==
    \E ans \in { a \in DirectAnswers \ {Ok} : a.cat \in classes } :
        \E dans \in IF ans.cat \in Handled /\ ans.msg # "error"
                     THEN { d \in DeclareAnswers \ {Ok} : d.cat \in classes } ELSE {Ok} :
            \E e \in {execute(Cur, NoStmt, ans, dans)} : Executed(e, NoStmt, ans)

Execute == ExecuteIn({DefaultEnv.cat})
ExecuteFails == ExecuteFailsIn({DefaultEnv.cat})

\* what a fetch call leaves: the fields, the service's cursor, and what the caller got
FetchedAs(r, name, d) ==
    /\ Install(r.S)
    /\ srv' = [srv EXCEPT !.pos = r.S.pos]
    /\ delivered' = delivered \o r.ret
    /\ ret' = r.ret
    /\ raised' = r.raised
    /\ hist' = Mix(hist, name)
    /\ fin' = IF fin = "failed" \/ r.raised # "none" THEN "failed"
              ELSE IF fin # "open" THEN "past"
              ELSE IF name \in {"fetchall", "iterate"} \/ r.ret = <<>> THEN "ended"
              ELSE "open"
    /\ did' = d
    /\ UNCHANGED <<kind, arraysize, stmt, via, error>>
    /\ UNCHANGED connVars
    /\ UNCHANGED metaVars
    /\ UNCHANGED stepVars

Fetched(r, name) == FetchedAs(r, name, NoCall)

\* the fetch calls, against a service that treats their requests in one of `envs`
\* the seconds int(time.time()) reads, and strings random.choices can draw
MaxSeconds == 2
Seconds == 1..MaxSeconds
Suffixes == {"aaaaaaaa", "aaaaaaab"}
\* "{}_{}_{}".format(__name__, int(time.time()), "".join(random.choices(...)))
pg_cursor_name(now, drawn) == <<"aurora_data_api.sync", now, drawn>>
\* what an execute made, with the name its _start_paginated_query generated
Named(e, name) == IF e.S.ps.set THEN [e EXCEPT !.S.ps.pg_cursor_name = name] ELSE e

\* execute at some second, random.choices drawing some string
ExecuteNamed ==
    \E s \in StmtsOf(1) \cup StmtsOf(MaxFetch), ans \in {Ok, Fail("paginate", DefaultEnv.cat)},
       now \in Seconds, drawn \in Suffixes :
        /\ ans = Ok => Fits(s)
        /\ \E e \in {Named(execute(Cur, s, ans, Ok), pg_cursor_name(now, drawn))} :
              Executed(e, s, ans)

FetchOneIn(envs) ==
    \E env \in envs :
        \E r \in {fetchone([Cur EXCEPT !.env = env])} : Fetched(r, "fetchone")

FetchManyIn(envs) ==
    \E size \in (1..MaxFetch) \cup {arraysize}, env \in envs :
        \E r \in {fetchmany([Cur EXCEPT !.env = env], size)} : Fetched(r, "fetchmany")

FetchAllIn(envs) ==
    \E env \in envs :
        \E r \in {fetchall([Cur EXCEPT !.env = env])} : Fetched(r, "fetchall")

\* a whole `for record in cursor:` loop
IterateIn(envs) ==
    /\ Len(delivered) <= MaxRows
    /\ Len(reqs) <= MaxReqs
    /\ \E env \in envs :
         \E r \in {iterate([Cur EXCEPT !.env = env])} : Fetched(r, "iterate")

FetchOne == FetchOneIn({DefaultEnv})
FetchMany == FetchManyIn({DefaultEnv})

\* fetchmany(size), the size on record
FetchManySized ==
    \E size \in (1..MaxFetch) \cup {arraysize} :
        \E r \in {fetchmany(Cur, size)} :
            FetchedAs(r, "fetchmany", [op |-> "fetchmany", value |-> size, mode |-> "none"])
FetchAll == FetchAllIn({DefaultEnv})
Iterate == IterateIn({DefaultEnv})

\* the same calls when the service reports failures in every class
FaultyExecute == ExecuteIn(Categories)
FaultyExecuteFails == ExecuteFailsIn(Categories)
FaultyFetchOne == FetchOneIn(FetchEnvs)

\* scroll(value, mode) by the caller, once per execute and before any rewind
ScrollOf(values, modes, answers) ==
    \E value \in values, mode \in modes, mans \in answers :
        /\ Len(reqs) <= MaxReqs
        /\ \A i \in DOMAIN reqs : reqs[i].op # "MOVE"
        /\ \E r \in {scroll(Cur, srv.s, value, mode, mans)} :
             /\ Install(r.S)
             /\ srv' = [srv EXCEPT !.pos = r.S.pos]
             /\ raised' = r.raised
             /\ did' = [op |-> "scroll", value |-> value, mode |-> mode]
             /\ UNCHANGED <<kind, arraysize, stmt, via, delivered, ret, hist, fin, error>>
             /\ UNCHANGED connVars
             /\ UNCHANGED metaVars
             /\ UNCHANGED stepVars

Scroll == ScrollOf(ScrollValues, Modes, MoveAnswers)
\* scroll(-1), the MOVE answered
ScrollBack == ScrollOf({0 - 1}, {"relative"}, {"ok"})

\* execute of a mutating statement; s.n is the number of rows it touches
ExecuteUpdate ==
    \E s \in StmtsOf(0) \cup StmtsOf(MaxUpdated) :
        \E e \in {execute(Cur, s, Updated, Ok)} : Executed(e, s, Updated)

\* the Cursor's __exit__ / __aexit__ at the end of its with-block
\* a scope exit that ends the transaction as the Connection's does
CursorExit_ends_transaction ==
    /\ did.op # "exit"
    /\ current_response' = NoResponse
    /\ iterator' = NoGen
    /\ via' = "exited"
    /\ did' = [op |-> "exit", value |-> 0, mode |-> "none"]
    /\ raised' = "none"
    /\ fault' = NoFault
    /\ transaction_id' = NoTxn
    /\ ended' = [ended EXCEPT ![CursorTxn] = @ + 1]
    /\ UNCHANGED <<kind, arraysize, paging_state, record_index, page_iterator, srv, stmt,
                   reqs, delivered, ret, hist, fin, oversized, error>>
    /\ UNCHANGED <<charset, begins, srvTxn, entered, call>>
    /\ UNCHANGED metaVars
    /\ UNCHANGED stepVars

CursorExit ==
    /\ did.op # "exit"
    /\ current_response' = NoResponse
    /\ iterator' = NoGen
    /\ via' = "exited"
    /\ did' = [op |-> "exit", value |-> 0, mode |-> "none"]
    /\ raised' = "none"
    /\ fault' = NoFault
    /\ UNCHANGED <<kind, arraysize, paging_state, record_index, page_iterator, srv, stmt,
                   reqs, delivered, ret, hist, fin, oversized, error>>
    /\ UNCHANGED connVars
    /\ UNCHANGED metaVars
    /\ UNCHANGED stepVars

\* executemany(operation, seq_of_parameters), and which of its requests the
\* service rejects; the caller goes on after a short one, and keeps to
\* executemany
ExecuteManyOf(seqs) ==
    \E seq \in seqs, failing \in 0..(MaxBatches + 1), cat \in Categories :
        /\ did.op \in {"none", "executemany"}
        /\ did.op = "executemany" => Len(did.value.seq) <= MaxSmall
        /\ failing = 0 => cat = "BadRequestException"
        /\ \E ans \in {[failing |-> failing, cat |-> cat]} :
             \E r \in {executemany(Cur, NoStmt, seq, ans)} :
                /\ reqs' = r.S.log
                /\ fault' = r.S.fault
                /\ raised' = r.raised
                /\ did' = [op |-> "executemany", value |-> [seq |-> seq, ans |-> ans],
                           mode |-> "none"]
                /\ UNCHANGED <<kind, arraysize, current_response, paging_state, iterator,
                               record_index, page_iterator, srv, stmt, via, delivered, ret,
                               hist, fin, oversized, error>>
                /\ UNCHANGED connVars
                /\ UNCHANGED metaVars
                /\ UNCHANGED stepVars

\* _get_database_error(e) on a failure of a request; a pure function, applied
\* once in a behaviour
Classify ==
    \E original_error \in OriginalErrors :
        /\ error.cls = "none"
        /\ error' = get_database_error(original_error)
        /\ did' = [op |-> "classify", value |-> original_error, mode |-> "none"]
        /\ UNCHANGED <<kind, arraysize, current_response, paging_state, iterator,
                       record_index, page_iterator, srv, stmt, via, reqs, delivered, ret,
                       raised, hist, fin, oversized, fault>>
        /\ UNCHANGED connVars
        /\ UNCHANGED metaVars
        /\ UNCHANGED stepVars

\* execute(operation, parameters) with every kind of parameters, by a caller
\* that keeps to execute
ExecuteMany == ExecuteManyOf(ParamSeqs)
\* executemany with a short sequence
ExecuteFew == ExecuteManyOf({ seq \in ParamSeqs : Len(seq) <= MaxSmall })

ExecuteOf(stmts, params, classes) ==
    \E s \in stmts, parameters \in params,
       ans \in {Ok} \cup { Fail(m, c) : m \in {"paginate", "error"}, c \in classes } :
        /\ did.op \in {"none", "execute"}
        /\ \E e \in {execute_with_parameters(Cur, s, parameters, ans, Ok)} :
            ExecutedAs(e, s, ans, [op |-> "execute", value |-> parameters, mode |-> "none"])

ExecuteWith == ExecuteOf(StmtsOf(0) \cup StmtsOf(MaxFetch), Parameters, Categories)
\* execute without parameters, of one statement with MaxFetch light rows
ExecutePlain ==
    ExecuteOf({[n |-> MaxFetch, h |-> MaxFetch + 1, hw |-> RespLimit - 1]},
              {[type |-> "NoneType", len |-> 0]}, {DefaultEnv.cat})

CurNext == Execute \/ ExecuteFails \/ FetchOne \/ FetchMany \/ FetchAll \/ Iterate

\* the Connection of the cursor model is not used; the Cursor of the connection
\* model is the sync one, never executed
ConnIdle == ConnInit /\ charset = FALSE
CurIdle == CurInit /\ kind = "sync" /\ arraysize = DefaultArraySize

Init == ConnIdle /\ CurInit

Spec == Init /\ [][CurNext]_vars

\* the Cursor against a service that fails requests in every class
FaultNext == FaultyExecute \/ FaultyExecuteFails \/ FaultyFetchOne

FaultSpec == Init /\ [][FaultNext]_vars

\* the Cursor with scroll() among its calls
ScrollNext == Execute \/ ExecuteFails \/ FetchOne \/ Scroll

\* scroll() is the same text in both Cursors and reads neither the kind nor
\* arraysize: the sync Cursor, with a page size small enough for several pages
ScrollStart == Init /\ kind = "sync" /\ arraysize = 2

ScrollSpec == ScrollStart /\ [][ScrollNext]_vars

\* the Cursor with mutating statements and the end of its with-block
RowcountNext == Execute \/ ExecuteFails \/ ExecuteUpdate \/ FetchOne \/ FetchAll \/ CursorExit

\* rowcount does not read arraysize: the default and a page size small enough for
\* several pages
RowcountStart == Init /\ arraysize \in {2, DefaultArraySize}

RowcountSpec == RowcountStart /\ [][RowcountNext]_vars

\* the Cursor's executemany; it reads neither the kind nor arraysize
BatchNext == ExecuteMany

BatchStart == Init /\ kind = "sync" /\ arraysize = DefaultArraySize

BatchSpec == BatchStart /\ [][BatchNext]_vars

\* the classifier alone: it reads nothing of the Cursor
ClassifyNext == Classify

ClassifySpec == BatchStart /\ [][ClassifyNext]_vars

\* execute and executemany with parameters of every kind
ParamNext == ExecuteWith \/ ExecuteMany

\* the scalar values a caller passes as parameters
Texts == { <<>>, <<"a">>, <<"1", "2">> }
Dates == [type : {"date"}, year : {999, 2024}, month : {1, 12}, day : {2, 31}]
Times ==
    [type : {"time"}, hour : {0, 23}, minute : {5, 59}, second : {0, 30},
     microsecond : {0, 7, 123456}]
Datetimes ==
    [type : {"datetime"}, year : {999, 2024}, month : {1, 12}, day : {2, 31},
     hour : {0, 23}, minute : {5}, second : {0, 30}, microsecond : {0, 7, 123456}]
Decimals ==
    [type : {"Decimal"}, sign : {0, 1},
     digits : { <<"0">>, <<"5">>, <<"1", "2">>, <<"1", "0", "0">> },
     exponent : {0, -1, -2, -3}]
ParamValues ==
    { [type |-> "NoneType"] }
      \cup [type : {"str", "bytes"}, v : Texts]
      \cup [type : {"int"}, v : {-1, 0, 1, 7}]
      \cup [type : {"float"}, v : {0, 1}]
      \cup [type : {"bool"}, v : BOOLEAN]
      \cup Dates \cup Times \cup Datetimes \cup Decimals

\* the type_code of a column of the type a hint names: _pg_type_map, and str
\* for a type that is not in it
type_code(typeHint) ==
    CASE typeHint = "DATE" -> "date"
      [] typeHint = "TIME" -> "time"
      [] typeHint = "TIMESTAMP" -> "datetime"
      [] typeHint = "DECIMAL" -> "Decimal"
      [] OTHER -> "str"

\* a value is sent as a parameter and comes back in a column of its type
RoundTrip ==
    \E param_value \in ParamValues :
        /\ did.op = "none"
        /\ \E param \in {prepare_param_value(param_value)} :
              did' = [op |-> "prepare_param",
                      value |-> [param_value |-> param_value, param |-> param,
                                 rendered |-> render_value(param.value,
                                                           type_code(param.typeHint))],
                      mode |-> "none"]
        /\ UNCHANGED <<kind, arraysize, current_response, paging_state, iterator,
                       record_index, page_iterator, srv, stmt, via, reqs, delivered, ret,
                       raised, hist, fin, oversized, fault, error>>
        /\ UNCHANGED connVars
        /\ UNCHANGED metaVars
        /\ UNCHANGED stepVars

ChunkNext == Execute \/ ExecuteFails \/ FetchManySized

ChunkSpec == Init /\ [][ChunkNext]_vars

\* ---- the calls request by request: a step runs from one request's answer to
\* the next request (a blocking call in sync.py, an await in async_.py)
Waiting(op, at, ans, todo) == [op |-> op, at |-> at, ans |-> ans, todo |-> todo]

\* a FETCH refused as oversize is handled by issuing the rewind and the retry
\* together
on_oversize_gathered(args, rpp) ==
    <<Move(args, "RELATIVE", rewind(rpp)), Fetch(args, halve(rpp))>>

\* the requests issued when a FETCH of rpp > 1 rows was refused as oversize,
\* up to the next wait: scroll(-records_per_page)
on_oversize(args, rpp) == <<Move(args, "RELATIVE", rewind(rpp))>>

\* execute up to its first request
StepExecute ==
    \E s \in StmtsOf(0) \cup StmtsOf(MaxFetch) :
        /\ pc.op = "idle"
        /\ current_response' = NoResponse
        /\ iterator' = NoGen
        /\ paging_state' = NoPaging
        /\ stmt' = s
        /\ srv' = [s |-> NoStmt, pos |-> 0]
        /\ reqs' = <<Direct(Args(s))>>
        /\ inflight' = Append(inflight, Direct(Args(s)))
        /\ pc' = Waiting("execute", "EXECUTE", Ok, <<>>)
        /\ via' = "none"
        /\ raised' = "none"
        /\ delivered' = <<>>
        /\ ret' = <<>>
        /\ hist' = "none"
        /\ fin' = "open"
        /\ oversized' = FALSE
        /\ fault' = NoFault
        /\ did' = NoCall
        /\ UNCHANGED <<kind, arraysize, record_index, page_iterator, error>>
        /\ UNCHANGED connVars
        /\ UNCHANGED metaVars

\* execute from the answer that ends it to its return or raise
StepExecuted(e, ans) ==
    /\ Install(e.S)
    /\ srv' = IF e.S.ps.set THEN [s |-> stmt, pos |-> 0] ELSE [s |-> NoStmt, pos |-> 0]
    /\ via' = IF e.raised # "none" THEN "failed" ELSE ans.msg
    /\ raised' = e.raised
    /\ pc' = Idle
    /\ inflight' = Tail(inflight)
    /\ UNCHANGED <<kind, arraysize, stmt, delivered, ret, hist, fin, error, did>>
    /\ UNCHANGED connVars
    /\ UNCHANGED metaVars

\* the direct request is answered: the rows, a failure, or a signal that is
\* followed by the DECLARE
StepExecuteAnswer ==
    \E ans \in {Ok} \cup { Fail(m, DefaultEnv.cat) : m \in {"paginate", "oversize", "error"} } :
        /\ pc.op = "execute" /\ pc.at = "EXECUTE"
        /\ ans = Ok => Fits(stmt)
        /\ ans.msg = "oversize" => ~Fits(stmt)
        /\ IF ans.msg \in {"paginate", "oversize"}
           THEN /\ reqs' = Append(reqs, Declare(Args(stmt)))
                /\ inflight' = Append(Tail(inflight), Declare(Args(stmt)))
                /\ pc' = Waiting("execute", "DECLARE", ans, <<>>)
                /\ UNCHANGED <<kind, arraysize, current_response, paging_state, iterator,
                               record_index, page_iterator, srv, stmt, via, delivered, ret,
                               raised, hist, fin, oversized, fault, error, did>>
                /\ UNCHANGED connVars
                /\ UNCHANGED metaVars
           ELSE \E e \in {execute(Cur, stmt, ans, Ok)} : StepExecuted(e, ans)

\* the DECLARE is answered
StepDeclareAnswer ==
    \E dans \in {Ok, Fail("error", DefaultEnv.cat)} :
        /\ pc.op = "execute" /\ pc.at = "DECLARE"
        /\ \E e \in {execute(Cur, stmt, pc.ans, dans)} : StepExecuted(e, pc.ans)

\* fetchall on a paginated cursor up to its first FETCH
StepFetchAll ==
    /\ pc.op = "idle"
    /\ paging_state.set /\ via \in {"paginate", "oversize"} /\ fin = "open"
    /\ \E out \in {Fetch(paging_state.args, paging_state.records_per_page)} :
          /\ reqs' = Append(reqs, out)
          /\ inflight' = Append(inflight, out)
    /\ pc' = Waiting("fetchall", "FETCH", Ok, <<>>)
    /\ hist' = Mix(hist, "fetchall")
    /\ raised' = "none"
    /\ did' = NoCall
    /\ UNCHANGED <<kind, arraysize, current_response, paging_state, iterator, record_index,
                   page_iterator, srv, stmt, via, delivered, ret, fin, oversized, fault,
                   error>>
    /\ UNCHANGED connVars
    /\ UNCHANGED metaVars

\* a FETCH is answered: a page and the next FETCH, the empty page, or a failure
\* with the size signal in category cat, followed by the rewind or raised
StepFetchAnswer ==
    \E page \in {SrvFetch(srv.s, srv.pos, paging_state.records_per_page)},
       cat \in Handled :
        /\ pc.op = "fetchall" /\ pc.at = "FETCH"
        /\ ~page.over => cat = DefaultEnv.cat
        /\ srv' = [srv EXCEPT !.pos = page.pos]
        /\ oversized' = (oversized \/ page.over)
        /\ delivered' = IF page.over THEN delivered ELSE delivered \o page.rows
        /\ \E retried \in {page.over /\ cat = "BadRequestException"
                              /\ paging_state.records_per_page > 1},
              more \in {~page.over /\ Len(page.rows) > 0} :
              /\ \E out \in {IF retried
                              THEN on_oversize(paging_state.args, paging_state.records_per_page)
                              ELSE IF more
                              THEN <<Fetch(paging_state.args, paging_state.records_per_page)>>
                              ELSE <<>>} :
                    /\ reqs' = reqs \o out
                    /\ inflight' = Tail(inflight) \o out
              /\ pc' = IF retried THEN Waiting("fetchall", "MOVE", Ok, <<>>)
                        ELSE IF more THEN pc ELSE Idle
              /\ raised' = IF ~page.over \/ retried THEN "none"
                            ELSE IF cat = "BadRequestException" THEN "DatabaseError" ELSE cat
              /\ fault' = IF ~page.over \/ retried THEN fault ELSE Fault("FETCH", cat)
              /\ fin' = IF retried \/ more THEN fin
                         ELSE IF page.over THEN "failed" ELSE "ended"
        /\ UNCHANGED <<kind, arraysize, current_response, paging_state, iterator,
                       record_index, page_iterator, stmt, via, ret, hist, error, did>>
        /\ UNCHANGED connVars
        /\ UNCHANGED metaVars

\* scroll on a paginated cursor up to its MOVE
StepScroll ==
    \E value \in {0 - 1, 1} :
        /\ pc.op = "idle"
        /\ paging_state.set /\ via \in {"paginate", "oversize"}
        /\ \A i \in DOMAIN reqs : reqs[i].op # "MOVE"
        /\ \E out \in {Move(paging_state.args, Upper("relative"), value)} :
              /\ reqs' = Append(reqs, out)
              /\ inflight' = Append(inflight, out)
        /\ pc' = Waiting("scroll", "MOVE", Ok, <<>>)
        /\ did' = [op |-> "scroll", value |-> value, mode |-> "relative"]
        /\ raised' = "none"
        /\ UNCHANGED <<kind, arraysize, current_response, paging_state, iterator,
                       record_index, page_iterator, srv, stmt, via, delivered, ret, hist,
                       fin, oversized, fault, error>>
        /\ UNCHANGED connVars
        /\ UNCHANGED metaVars

\* a MOVE is answered: scroll returns or raises; the fetch loop halves the page
\* size and sends the FETCH again, or the failure leaves it
StepMoveAnswer ==
    \E mans \in MoveAnswers :
        /\ pc.at = "MOVE"
        /\ IF pc.op = "scroll"
           THEN /\ srv' = IF mans = "ok"
                          THEN [srv EXCEPT !.pos = SrvMoveMode(srv.s, srv.pos, "RELATIVE",
                                                               did.value)]
                          ELSE srv
                /\ reqs' = reqs
                /\ inflight' = Tail(inflight)
                /\ pc' = Idle
                /\ raised' = IF mans = "ok" THEN "none" ELSE mans
                /\ fault' = IF mans = "ok" THEN fault ELSE Fault("MOVE", mans)
                /\ UNCHANGED <<paging_state, fin>>
           ELSE IF mans = "ok"
           THEN /\ srv' = [srv EXCEPT !.pos = SrvMove(srv.s, srv.pos,
                                                      rewind(paging_state.records_per_page))]
                /\ paging_state' = [paging_state EXCEPT !.records_per_page = halve(@)]
                /\ \E out \in {Fetch(paging_state.args,
                                      halve(paging_state.records_per_page))} :
                      /\ reqs' = Append(reqs, out)
                      /\ inflight' = Append(Tail(inflight), out)
                /\ pc' = Waiting("fetchall", "FETCH", Ok, <<>>)
                /\ UNCHANGED <<raised, fault, fin>>
           ELSE /\ reqs' = reqs
                /\ inflight' = Tail(inflight)
                /\ pc' = Idle
                /\ raised' = mans
                /\ fault' = Fault("MOVE", mans)
                /\ fin' = "failed"
                /\ UNCHANGED <<srv, paging_state>>
        /\ UNCHANGED <<kind, arraysize, current_response, iterator, record_index,
                       page_iterator, stmt, via, delivered, ret, hist, oversized, error, did>>
        /\ UNCHANGED connVars
        /\ UNCHANGED metaVars

\* the request of one page of executemany
BatchOf(page) ==
    Batch(Args(NoStmt), [j \in DOMAIN page |-> format_parameter_set(page[j])])

\* executemany, of mappings, up to its first request
StepExecuteMany ==
    \E k \in {MaxSmall, PageSize + 1} :
        \E pages \in {page_input([i \in 1..k |-> ParamSet(i)], PageSize)} :
            /\ pc.op = "idle"
            /\ via = "none" /\ reqs = <<>>
            /\ reqs' = <<BatchOf(Head(pages))>>
            /\ inflight' = Append(inflight, BatchOf(Head(pages)))
            /\ pc' = Waiting("executemany", "BATCH", Ok, Tail(pages))
            /\ raised' = "none"
            /\ fault' = NoFault
            /\ did' = NoCall
            /\ UNCHANGED <<kind, arraysize, current_response, paging_state, iterator,
                           record_index, page_iterator, srv, stmt, via, delivered, ret, hist,
                           fin, oversized, error>>
            /\ UNCHANGED connVars
            /\ UNCHANGED metaVars

\* a batch request is answered: the next page is sent, or executemany ends
StepBatchAnswer ==
    \E ans \in {Ok, Fail("error", DefaultEnv.cat)} :
        /\ pc.op = "executemany" /\ pc.at = "BATCH"
        /\ \E more \in {ans = Ok /\ pc.todo # <<>>} :
              /\ \E out \in {IF more THEN <<BatchOf(Head(pc.todo))>> ELSE <<>>} :
                    /\ reqs' = reqs \o out
                    /\ inflight' = Tail(inflight) \o out
              /\ pc' = IF more THEN [pc EXCEPT !.todo = Tail(@)] ELSE Idle
        /\ raised' = IF ans = Ok THEN "none" ELSE "DatabaseError"
        /\ fault' = IF ans = Ok THEN fault ELSE Fault("BATCH", ans.cat)
        /\ UNCHANGED <<kind, arraysize, current_response, paging_state, iterator,
                       record_index, page_iterator, srv, stmt, via, delivered, ret, hist,
                       fin, oversized, error, did>>
        /\ UNCHANGED connVars
        /\ UNCHANGED metaVars

StepNext ==
    \/ StepExecute \/ StepExecuteAnswer \/ StepDeclareAnswer
    \/ StepFetchAll \/ StepFetchAnswer \/ StepScroll \/ StepMoveAnswer
    \/ StepExecuteMany \/ StepBatchAnswer

StepStart == Init /\ arraysize = 2

StepSpec == StepStart /\ [][StepNext]_vars

PagingNext == Execute \/ ExecuteFails \/ FetchAll \/ Scroll \/ CursorExit

PagingSpec == ScrollStart /\ [][PagingNext]_vars

\* the Cursor of the model is the first one cursor() returned: it has the
\* transaction id CursorTxn, which the service handed out first
HasCursor == srvTxn >= CursorTxn
ShareNext ==
    \/ ConnCursor
    \/ (HasCursor /\ ExecutePlain)
    \/ (HasCursor /\ via = "none" /\ ExecuteFew)
    \/ (HasCursor /\ FetchOne)
    \/ (HasCursor /\ FetchMany)
    \/ (HasCursor /\ FetchAll)
    \/ (HasCursor /\ Iterate)
    \/ (HasCursor /\ ScrollBack)
    \/ (HasCursor /\ CursorExit)

ShareStart == ConnIdle /\ CurInit /\ kind = "sync" /\ arraysize = 2

ShareSpec == ShareStart /\ [][ShareNext]_vars

\* a FETCH is answered with a failure that is not the size signal, in any class:
\* the handler's else branch, or no handler at all
StepFetchFails ==
    \E cat \in Categories :
        /\ pc.op = "fetchall" /\ pc.at = "FETCH"
        /\ reqs' = reqs
        /\ inflight' = Tail(inflight)
        /\ pc' = Idle
        /\ raised' = IF cat = "BadRequestException" THEN "DatabaseError" ELSE cat
        /\ fault' = Fault("FETCH", cat)
        /\ fin' = "failed"
        /\ UNCHANGED <<kind, arraysize, current_response, paging_state, iterator,
                       record_index, page_iterator, srv, stmt, via, delivered, ret, hist,
                       oversized, error, did>>
        /\ UNCHANGED connVars
        /\ UNCHANGED metaVars

\* the Connection's calls around the Cursor's, request by request: cursor() until
\* the first Cursor exists, the Cursor's calls while its transaction is the one
\* held, commit() and rollback() between the Cursor's calls
Held == transaction_id = CursorTxn
Between == pc.op = "idle"
RetryNext ==
    \/ (~HasCursor /\ ConnCursor)
    \/ (Between /\ ConnCommit)
    \/ (Between /\ ConnRollback)
    \/ (Held /\ StepExecute)
    \/ (Held /\ StepExecuteAnswer)
    \/ (Held /\ StepDeclareAnswer)
    \/ (Held /\ StepFetchAll)
    \/ (Held /\ StepFetchAnswer)
    \/ (Held /\ StepFetchFails)
    \/ (Held /\ StepScroll)
    \/ (Held /\ StepMoveAnswer)
    \/ (Held /\ StepExecuteMany)
    \/ (Held /\ StepBatchAnswer)

RetrySpec == StepStart /\ [][RetryNext]_vars

\* ---- column metadata, Description and the decoding of rows
\* rows of the largest result of a statement with column metadata
MaxTypedRows == 2
\* the typeName of the columns (matched after .lower())
ColumnSets == { <<"int4">>, <<"date">>, <<"text", "int4">>, <<"date", "text">> }
TypedStmts == [cols : ColumnSets, n : 0..MaxTypedRows]
\* the wire value the service sends for row i in a column of a type
WireValue(typeName, i) ==
    CASE typeName = "int4" -> [tag |-> "longValue", scalar |-> i]
      [] typeName = "date" ->
            [tag |-> "stringValue",
             scalar |-> str_date([type |-> "date", year |-> 2024, month |-> 1, day |-> i])]
      [] OTHER -> [tag |-> "stringValue", scalar |-> <<"a", DigitChar(i)>>]
\* record i of the statement's result as the service sends it
WireRecord(s, i) == [j \in DOMAIN s.cols |-> WireValue(s.cols[j], i)]
\* _pg_type_map.get(column["typeName"].lower(), str)
pg_type(typeName) ==
    CASE typeName = "int4" -> "int"
      [] typeName = "date" -> "date"
      [] typeName = "time" -> "time"
      [] typeName = "timestamp" -> "datetime"
      [] typeName = "numeric" -> "Decimal"
      [] OTHER -> "str"
\* _set_description(column_metadata): what self.description is afterwards
set_description(column_metadata) ==
    [set |-> TRUE, cols |-> [j \in DOMAIN column_metadata |-> pg_type(column_metadata[j])]]
\* `not self.description`: None or an empty list
not_description(d) == ~d.set \/ d.cols = <<>>
\* _render_value(value, col_desc) with what it raises: fromisoformat of a value
\* that is no str is a TypeError, which the except clause does not name; a
\* ValueError is raised again by strptime
render_scalar(value, code) ==
    IF code \in {"date", "time", "datetime"} /\ value.tag # "stringValue"
    THEN [type |-> "TypeError"]
    ELSE render_value(value, code)
\* the tuple _render_response puts in the place of a record: element j is
\* decoded with self.description[j], with None when there is no description;
\* a record longer than the description is an IndexError
render_record(record, d) ==
    IF not_description(d)
    THEN [j \in DOMAIN record |-> render_scalar(record[j], "None")]
    ELSE [j \in DOMAIN record |->
            IF j > Len(d.cols) THEN [type |-> "IndexError"]
            ELSE render_scalar(record[j], d.cols[j])]
Errors == {"TypeError", "ValueError", "IndexError", "InvalidOperation"}
\* _render_response(response): the records rewritten, or the first exception
render_response(records, d) ==
    LET out == [i \in DOMAIN records |-> render_record(records[i], d)]
        bad == { <<i, j>> \in (DOMAIN records) \X (1..2) :
                    j <= Len(out[i]) /\ out[i][j].type \in Errors }
    IN  IF bad = {}
        THEN [raised |-> "none", records |-> out]
        ELSE [raised |-> (LET first == CHOOSE b \in bad :
                                \A c \in bad : b[1] < c[1] \/ (b[1] = c[1] /\ b[2] <= c[2])
                          IN  out[first[1]][first[2]].type),
              records |-> <<>>]

\* the fetch loop with pages that keep the Description: the first page's
\* metadata is the Description when there is none yet
page_description(d, column_metadata) ==
    IF not_description(d) THEN set_description(column_metadata) ELSE d

RECURSIVE TypedFetchLoop(_, _, _, _, _, _)
\* the paginating generator run to its end, as fetchall does: s the statement,
\* pos the service cursor's position, rpp records_per_page, d the Description,
\* rows what was yielded, log the requests
TypedFetchLoop(s, pos, rpp, d, rows, log) ==
    LET last   == Min(pos + rpp, s.n)
        page   == [i \in 1..Max(0, last - pos) |-> WireRecord(s, pos + i)]
        d2     == page_description(d, s.cols)
        sent   == Append(log, Fetch(Args(s), rpp))
        render == render_response(page, d2)
    IN  IF Len(page) = 0
        THEN [description |-> d2, rows |-> rows, raised |-> "none", log |-> sent]
        ELSE IF render.raised # "none"
        THEN [description |-> d2, rows |-> rows, raised |-> render.raised, log |-> sent]
        ELSE TypedFetchLoop(s, last, rpp, d2, rows \o render.records, sent)

\* execute(operation) of a statement with column metadata: answered with the
\* rows, or with the pagination signal and then the DECLARE's plain answer
TypedExecute ==
    \E s \in TypedStmts, ans \in {Ok, Fail("paginate", DefaultEnv.cat)} :
        /\ stmt' = s
        /\ delivered' = <<>>
        /\ ret' = <<>>
        /\ hist' = "none"
        /\ fin' = "open"
        /\ srv' = [s |-> s, pos |-> 0]
        /\ IF ans = Ok
           THEN \E d \in {set_description(s.cols)} :
                  \E r \in {render_response([i \in 1..s.n |-> WireRecord(s, i)], d)} :
                    /\ description' = d
                    /\ current_response' = [NoResponse EXCEPT !.set = r.raised = "none",
                                                              !.records = r.records]
                    /\ iterator' = IF r.raised = "none" THEN NewGen ELSE NoGen
                    /\ paging_state' = NoPaging
                    /\ reqs' = <<Direct(Args(s))>>
                    /\ raised' = r.raised
                    /\ via' = IF r.raised = "none" THEN "ok" ELSE "failed"
           ELSE /\ description' = description
                /\ current_response' = NoResponse
                /\ iterator' = NewGen
                /\ paging_state' = [NoPaging EXCEPT !.set = TRUE,
                                                    !.records_per_page = arraysize,
                                                    !.args = Args(s),
                                                    !.pg_cursor_name = "generated"]
                /\ reqs' = <<Direct(Args(s)), Declare(Args(s))>>
                /\ raised' = "none"
                /\ via' = "paginate"
        /\ UNCHANGED <<kind, arraysize, record_index, page_iterator, oversized, fault, error,
                       did, continue_after_timeout, factory, tasks>>
        /\ UNCHANGED connVars
        /\ UNCHANGED stepVars

\* fetchall() after such an execute
TypedFetchAll ==
    /\ via \in {"ok", "paginate"} /\ fin = "open"
    /\ IF paging_state.set
       THEN \E r \in {TypedFetchLoop(stmt, srv.pos, paging_state.records_per_page,
                                     description, <<>>, reqs)} :
              /\ description' = r.description
              /\ delivered' = r.rows
              /\ ret' = IF r.raised = "none" THEN r.rows ELSE <<>>
              /\ raised' = r.raised
              /\ reqs' = r.log
              /\ fin' = IF r.raised = "none" THEN "ended" ELSE "failed"
       ELSE /\ description' = description
            /\ delivered' = current_response.records
            /\ ret' = current_response.records
            /\ raised' = "none"
            /\ reqs' = reqs
            /\ fin' = "ended"
    /\ hist' = "fetchall"
    /\ UNCHANGED <<kind, arraysize, current_response, paging_state, iterator, record_index,
                   page_iterator, srv, stmt, via, oversized, fault, error, did,
                   continue_after_timeout, factory, tasks>>
    /\ UNCHANGED connVars
    /\ UNCHANGED stepVars

TypedNext == TypedExecute \/ TypedFetchAll

TypedStart == ConnIdle /\ CurInit /\ kind = "sync" /\ arraysize = 1

TypedSpec == TypedStart /\ [][TypedNext]_vars

\* the first Cursor's statements around the Connection's commit() and
\* rollback(): the Cursor keeps the id it was made with
StaleNext ==
    \/ (~HasCursor /\ ConnCursor)
    \/ ConnCommit
    \/ ConnRollback
    \/ (HasCursor /\ ExecutePlain)
    \/ (HasCursor /\ via = "none" /\ ExecuteFew)
    \/ (HasCursor /\ FetchAll)
    \/ (HasCursor /\ ScrollBack)

StaleSpec == ShareStart /\ [][StaleNext]_vars

\* ---- the arguments of the requests, key by key
\* the values a Connection is made with: continue_after_timeout=None, True, False
FlagValues == {"None", "True", "False"}
\* _prepare_execute_args(operation); self._transaction_id is the id cursor() gave
prepare_execute_args(operation) ==
    [database |-> "dbname", resourceArn |-> "cluster", secretArn |-> "secret",
     sql |-> operation, transactionId |-> CursorTxn]
\* the flag is added only when it is truthy
execute_statement_args_if_truthy(operation, flag) ==
    LET args == prepare_execute_args(operation) @@ [includeResultMetadata |-> TRUE]
    IN  IF flag = "True" THEN args @@ [continueAfterTimeout |-> flag] ELSE args
\* execute, lines 112-114: the arguments of the direct attempt
execute_statement_args(operation, flag) ==
    LET args == prepare_execute_args(operation) @@ [includeResultMetadata |-> TRUE]
    IN  IF flag # "None" THEN args @@ [continueAfterTimeout |-> flag] ELSE args
\* the sql texts: the statement, and what wraps or follows it
Sql(op, n, name, s) == [op |-> op, n |-> n, name |-> name, q |-> s]
\* _start_paginated_query: the DECLARE's arguments are the direct attempt's
\* with the sql wrapped; the paging state keeps a copy of them
declare_args(execute_args, name) ==
    [execute_args EXCEPT !.sql = Sql("DECLARE", 0, name, execute_args.sql.q)]
\* __iter__, lines 155 and 160: the paging state's arguments with the FETCH as sql
fetch_args(ps) ==
    [ps.args EXCEPT !.sql = Sql("FETCH", ps.records_per_page, ps.pg_cursor_name, @.q)]
\* scroll, lines 146-149: a copy of the paging state's arguments with the MOVE as sql
scroll_args(ps, value) ==
    [ps.args EXCEPT !.sql = Sql("MOVE", value, ps.pg_cursor_name, @.q)]
\* executemany, lines 135-137: the arguments of a batch
batch_args(operation, sets) == prepare_execute_args(operation) @@ [parameterSets |-> sets]

RECURSIVE KeyedFetchLoop(_, _, _, _, _)
\* the fetch loop run to its end with the requests kept key by key: ps the
\* paging state, pos the service cursor's position
KeyedFetchLoop(s, ps, pos, log, rows) ==
    Only({
        LET rpp  == ps.records_per_page
            sent == Append(log, fetch_args(ps))
        IN  IF ~page.over
            THEN IF Len(page.rows) = 0
                 THEN [ps |-> ps, pos |-> page.pos, log |-> sent, rows |-> rows,
                       raised |-> "none"]
                 ELSE KeyedFetchLoop(s, ps, page.pos, sent, rows \o page.rows)
            ELSE IF rpp > 1
            THEN KeyedFetchLoop(s, [ps EXCEPT !.records_per_page = halve(rpp)],
                                SrvMove(s, page.pos, rewind(rpp)),
                                Append(sent, scroll_args(ps, rewind(rpp))), rows)
            ELSE [ps |-> ps, pos |-> page.pos, log |-> sent, rows |-> rows,
                  raised |-> "DatabaseError"]
        : page \in {SrvFetch(s, pos, ps.records_per_page)} })

\* execute(operation) with its requests kept key by key
KeyedExecute ==
    \E s \in StmtsOf(MaxFetch), m \in {"ok", "paginate", "oversize"} :
        /\ m = "ok" => Fits(s)
        /\ m = "oversize" => ~Fits(s)
        /\ \E args \in {execute_statement_args(Sql("EXECUTE", 0, "none", s),
                                               continue_after_timeout)} :
              IF m = "ok"
              THEN /\ reqs' = <<args>>
                   /\ current_response' = RowsResponse(s)
                   /\ paging_state' = NoPaging
                   /\ srv' = [s |-> NoStmt, pos |-> 0]
              ELSE /\ reqs' = <<args, declare_args(args, "generated")>>
                   /\ current_response' = NoResponse
                   /\ paging_state' =
                         [set |-> TRUE,
                          records_per_page |-> IF m = "oversize"
                                               THEN Max(1, arraysize \div 2) ELSE arraysize,
                          args |-> declare_args(args, "generated"),
                          pg_cursor_name |-> "generated"]
                   /\ srv' = [s |-> s, pos |-> 0]
        /\ stmt' = s
        /\ via' = m
        /\ iterator' = NewGen
        /\ raised' = "none"
        /\ delivered' = <<>>
        /\ ret' = <<>>
        /\ hist' = "none"
        /\ fin' = "open"
        /\ did' = NoCall
        /\ UNCHANGED <<kind, arraysize, record_index, page_iterator, oversized, fault, error>>
        /\ UNCHANGED connVars
        /\ UNCHANGED stepVars
        /\ UNCHANGED metaVars

\* fetchall() on a paginated cursor
KeyedFetchAll ==
    /\ paging_state.set /\ fin = "open"
    /\ \E r \in {KeyedFetchLoop(stmt, paging_state, srv.pos, reqs, <<>>)} :
          /\ reqs' = r.log
          /\ paging_state' = r.ps
          /\ srv' = [srv EXCEPT !.pos = r.pos]
          /\ delivered' = delivered \o r.rows
          /\ ret' = IF r.raised = "none" THEN r.rows ELSE <<>>
          /\ raised' = r.raised
          /\ fin' = IF r.raised = "none" THEN "ended" ELSE "failed"
    /\ hist' = Mix(hist, "fetchall")
    /\ did' = NoCall
    /\ UNCHANGED <<kind, arraysize, current_response, iterator, record_index, page_iterator,
                   stmt, via, oversized, fault, error>>
    /\ UNCHANGED connVars
    /\ UNCHANGED stepVars
    /\ UNCHANGED metaVars

\* scroll(value) on a paginated cursor, once per execute in the model
KeyedScroll ==
    \E value \in {0 - 1, 1} :
        /\ paging_state.set /\ did.op = "none"
        /\ reqs' = Append(reqs, scroll_args(paging_state, value))
        /\ srv' = [srv EXCEPT !.pos = SrvMove(srv.s, srv.pos, value)]
        /\ did' = [op |-> "scroll", value |-> value, mode |-> "relative"]
        /\ raised' = "none"
        /\ UNCHANGED <<kind, arraysize, current_response, paging_state, iterator,
                       record_index, page_iterator, stmt, via, delivered, ret, hist, fin,
                       oversized, fault, error>>
        /\ UNCHANGED connVars
        /\ UNCHANGED stepVars
        /\ UNCHANGED metaVars

\* executemany(operation, seq_of_parameters) with one page of mappings
KeyedExecuteMany ==
    \E k \in 1..MaxSmall :
        /\ did.op # "executemany"
        /\ reqs' = Append(reqs, batch_args(Sql("BATCH", 0, "none", NoStmt),
                                           [j \in 1..k |-> format_parameter_set(ParamSet(j))]))
        /\ did' = [op |-> "executemany", value |-> k, mode |-> "none"]
        /\ raised' = "none"
        /\ UNCHANGED <<kind, arraysize, current_response, paging_state, iterator,
                       record_index, page_iterator, srv, stmt, via, delivered, ret, hist,
                       fin, oversized, fault, error>>
        /\ UNCHANGED connVars
        /\ UNCHANGED stepVars
        /\ UNCHANGED metaVars

KeyedNext == KeyedExecute \/ KeyedFetchAll \/ KeyedScroll \/ KeyedExecuteMany

\* cursor() hands the Connection's continue_after_timeout to the Cursor
KeyedStart ==
    ConnIdle /\ CurFields /\ kind = "sync" /\ arraysize = 2
             /\ continue_after_timeout \in FlagValues

KeyedSpec == KeyedStart /\ [][KeyedNext]_vars

\* ---- the exception classes of the two factories
\* classes the model lets the factories make
MaxClasses == 6
\* getattr(self.err_index, a).name: the member that a names, and the name the
\* table has for that member's value
member_name(f, a) ==
    LET value == CHOOSE c \in DOMAIN err_index(f) : err_index(f)[c] = a
    IN  err_index(f)[value]
Resolved(fac, cls, exc) == [fac |-> fac, cls |-> cls, raised |-> exc]
\* __getattr__ that makes the class and does not set it on the factory
dunder_getattr_unset(fac, f, a) ==
    IF a \notin MemberNames(f)
    THEN Resolved(fac, NoClass, "AttributeError")
    ELSE Resolved([fac EXCEPT !.made = @ + 1],
                  [name |-> member_name(f, a), base |-> "DatabaseError", id |-> fac.made + 1],
                  "none")
\* _DatabaseErrorFactory.__getattr__(self, a), which Python calls when the
\* factory has no attribute a: type(name, (DatabaseError,), {}) is a new
\* class, and setattr makes it the attribute
dunder_getattr(fac, f, a) ==
    IF a \notin MemberNames(f)
    THEN Resolved(fac, NoClass, "AttributeError")
    ELSE LET err_cls == [name |-> member_name(f, a), base |-> "DatabaseError",
                         id |-> fac.made + 1]
         IN  Resolved([fac EXCEPT !.made = @ + 1, !.dict[f][a] = err_cls], err_cls, "none")
\* getattr(self, a), also written MySQLError.<a>: the attribute when it is set
getattr(fac, f, a) ==
    IF a \in MemberNames(f) /\ fac.dict[f][a] # NoClass
    THEN Resolved(fac, fac.dict[f][a], "none")
    ELSE dunder_getattr(fac, f, a)
\* from_code(err_code) on the factory f with the classes made so far
from_code_of(fac, f, err_code) ==
    LET member == from_code(err_index(f), err_code)
    IN  IF member.raised # "none"
        THEN Resolved(fac, NoClass, member.raised)
        ELSE getattr(fac, f, member.cls)

\* the class is asked for by name, as in `except MySQLError.ER_PARSE_ERROR`
FactoryGetAttr ==
    \E f \in Factories :
        \E a \in MemberNames(f) \cup {"ER_NO_MEMBER"} :
            /\ factory.made < MaxClasses
            /\ \E r \in {getattr(factory, f, a)} :
                  /\ factory' = r.fac
                  /\ did' = [op |-> "getattr",
                             value |-> [factory |-> f, name |-> a, cls |-> r.cls,
                                        raised |-> r.raised],
                             mode |-> "none"]
            /\ UNCHANGED <<kind, arraysize, current_response, paging_state, iterator,
                           record_index, page_iterator, srv, stmt, via, reqs, delivered,
                           ret, raised, hist, fin, oversized, fault, error, description,
                           continue_after_timeout, tasks>>
            /\ UNCHANGED connVars
            /\ UNCHANGED stepVars

\* the classifier resolves the code or state of a failure (base.py:189, 196)
FactoryFromCode ==
    \E f \in Factories :
        \E err_code \in DOMAIN err_index(f)
                        \cup (IF f = "MySQLError" THEN {15} ELSE {<<"X", "X", "0", "0", "0">>}) :
            /\ factory.made < MaxClasses
            /\ \E r \in {from_code_of(factory, f, err_code)} :
                  /\ factory' = r.fac
                  /\ did' = [op |-> "from_code",
                             value |-> [factory |-> f, name |-> r.cls.name, cls |-> r.cls,
                                        raised |-> r.raised],
                             mode |-> "none"]
            /\ UNCHANGED <<kind, arraysize, current_response, paging_state, iterator,
                           record_index, page_iterator, srv, stmt, via, reqs, delivered,
                           ret, raised, hist, fin, oversized, fault, error, description,
                           continue_after_timeout, tasks>>
            /\ UNCHANGED connVars
            /\ UNCHANGED stepVars

FactoryNext == FactoryGetAttr \/ FactoryFromCode

FactorySpec == BatchStart /\ [][FactoryNext]_vars

\* executemany between the calls that make and read a result: the Cursor's
\* fields afterwards are those executemany left
ExecuteManyBetween ==
    \E seq \in { q \in ParamSeqs : Len(q) <= MaxSmall }, failing \in 0..1 :
        \E ans \in {[failing |-> failing, cat |-> DefaultEnv.cat]} :
            \E r \in {executemany(Cur, NoStmt, seq, ans)} :
                /\ via # "none"
                /\ Install(r.S)
                /\ srv' = [srv EXCEPT !.pos = r.S.pos]
                /\ raised' = r.raised
                /\ did' = [op |-> "executemany", value |-> [seq |-> seq, ans |-> ans],
                           mode |-> "none"]
                /\ UNCHANGED <<kind, arraysize, stmt, via, delivered, ret, hist, fin, error>>
                /\ UNCHANGED connVars
                /\ UNCHANGED metaVars
                /\ UNCHANGED stepVars

\* execute of a statement of one row or of MaxFetch rows, without parameters
ExecuteShort ==
    ExecuteOf(StmtsOf(1) \cup StmtsOf(MaxFetch), {[type |-> "NoneType", len |-> 0]},
              {DefaultEnv.cat})

KeptNext == ExecuteShort \/ ExecuteUpdate \/ FetchOne \/ ExecuteManyBetween

KeptSpec == StepStart /\ [][KeptNext]_vars

NameNext == ExecuteNamed \/ FetchOne

NameSpec == ScrollStart /\ [][NameNext]_vars

CodecNext == RoundTrip

CodecSpec == BatchStart /\ [][CodecNext]_vars

ParamSpec == BatchStart /\ [][ParamNext]_vars

ConnNext == ConnCursor \/ ConnCommit \/ ConnRollback \/ ConnEnter \/ ConnExit

ConnStart == ConnInit /\ CurIdle

ConnSpec == ConnStart /\ [][ConnNext]_vars

\* ----------------------------------------------------------- Cursor claims
\* the last execute returned, by the direct path or by a paginated one
Returned == via \in {"ok", "paginate", "oversize"}
\* the rows of the last execute went to one consumption, which has just run to
\* its end without a failure: one for-loop, one fetchall, or fetchone / fetchmany
\* up to the first call that returned nothing
Consumed == /\ Returned
            /\ hist \in {"iterate", "fetchall", "fetchone", "fetchmany"}
            /\ fin = "ended"
\* every row of the statement's result has reached the caller
AllDelivered == \A i \in 1..stmt.n : \E j \in 1..Len(delivered) : delivered[j] = Row(stmt, i)

\* C1: iteration, one fetchall, fetchone until it returns nothing and fetchmany(n)
\* until it returns an empty list deliver the same row sequence and the same
\* count, each run after its own execute on the same cursor, sync or async: with
\* no oversize failure in the way, whichever of the four consumed the rows of
\* the last execute delivered exactly the rows of the result, in order.
C1_AllFetchPathsAgree ==
    (Consumed /\ ~oversized) =>
        (Len(delivered) = stmt.n /\ delivered = Rows(stmt))

\* C2: an execute whose direct attempt is answered "requires pagination" sends
\* a DECLARE and then FETCH requests, and the rows delivered are the rows of the
\* result, in order and in number, as a non-paginated execution delivers them.
C2_PaginatedSameRows ==
    /\ (via = "paginate") =>
          /\ Len(reqs) >= 2 /\ reqs[1].op = "EXECUTE" /\ reqs[2].op = "DECLARE"
          /\ \A i \in 3..Len(reqs) : reqs[i].op \in {"FETCH", "MOVE"}
          /\ hist # "none" => (Len(reqs) >= 3 /\ reqs[3].op = "FETCH")
    /\ (via = "paginate" /\ Consumed) => delivered = Rows(stmt)

\* C3: a FETCH of N > 1 rows refused as oversize is followed by a rewind and a
\* FETCH of N / 2 rows, and the rows delivered in the end are every row of the
\* result exactly once and in order, wherever the service's cursor stood when
\* the FETCH was refused, also with fewer than N rows left, down to page size 1.
C3_HalvingKeepsRows ==
    /\ \A i \in 1..Len(reqs) :
          reqs[i].op = "MOVE" =>
              /\ i > 1 /\ reqs[i - 1].op = "FETCH" /\ reqs[i - 1].n > 1
              /\ i < Len(reqs) =>
                    (reqs[i + 1].op = "FETCH" /\ reqs[i + 1].n = reqs[i - 1].n \div 2)
    /\ (Consumed /\ oversized) => delivered = Rows(stmt)

\* C4: the Cursor is reset by every execute: the first row fetched after an
\* execute is the first row of the new result, a fetch after an execute with a
\* non-empty result does not come back empty-handed, and all rows are delivered,
\* whatever was consumed of earlier results and whichever path they took.
C4_ResetOnExecute ==
    ~oversized =>
        /\ (Returned /\ delivered # <<>>) => delivered[1] = Row(stmt, 1)
        /\ (Returned /\ hist # "none" /\ raised = "none" /\ stmt.n > 0) => delivered # <<>>
        /\ Consumed => AllDelivered

\* C5: exhaustion is idempotent: once every row of an execute has been consumed,
\* a further fetchall, fetchmany or fetchone returns nothing, raises nothing and
\* delivers no row again, on the direct and on the paginated path.  (The step
\* is a fetch call other than a for-loop: it leaves a history that a for-loop
\* would not have left.)
C5_ExhaustionIdempotent ==
    [][(Returned /\ fin \in {"ended", "past"} /\ AllDelivered /\ hist' # "none"
          /\ hist' # Mix(hist, "iterate"))
       => (ret' = <<>> /\ raised' = "none" /\ delivered' = delivered)]_vars

\* ------------------------------------------------------- Connection claims
CallEndsTxn == call.op \in {"commit", "rollback", "exit_ok", "exit_err"}

\* C6: the transaction is begun lazily and reused.  Constructing the Connection
\* sends no begin request; a cursor() that finds no id sends exactly one begin
\* request and stores the id the service returned; a cursor() that finds an id
\* sends no begin request, keeps that id and hands it to the new Cursor.
C6_LazyBeginAndReuse ==
    /\ call.op = "init" => (begins = 0 /\ transaction_id = NoTxn)
    /\ srvTxn <= begins
    /\ (call.op = "cursor" /\ call.pre = NoTxn) =>
          /\ CountRpc(call.sent, "begin") = 1
          /\ call.sent[1].rpc = "begin"
          /\ call.ans = "ok" => (transaction_id = srvTxn /\ transaction_id # NoTxn)
          /\ call.raised = "none" => call.cur = transaction_id
    /\ (call.op = "cursor" /\ call.pre # NoTxn) =>
          /\ CountRpc(call.sent, "begin") = 0
          /\ transaction_id = call.pre
          /\ call.raised = "none" => call.cur = call.pre

C6_Witness ==
    /\ call.op = "cursor" /\ call.pre # NoTxn /\ call.cur = call.pre
    /\ begins = 1 /\ srvTxn = 1

\* C7: every transaction is committed or rolled back exactly once: no id is named
\* by more than one commit-or-rollback request, a call that sent such a request
\* leaves the Connection without an id, whatever the service answered.
C7_EndedExactlyOnce ==
    /\ \A id \in TxnIds : ended[id] <= 1
    /\ (CallEndsTxn /\ call.sent # <<>>) => transaction_id = NoTxn

\* C8: commit() with an id held sends one commit request for that id, clears the
\* id, and raises a database error exactly when the answer does not report
\* "Transaction Committed"; the id is cleared whatever the answer.
C8_CommitClearsAndReports ==
    (call.op = "commit" /\ call.pre # NoTxn) =>
        /\ call.sent = <<Req("commit", call.pre)>>
        /\ transaction_id = NoTxn
        /\ call.raised = (IF call.ans = "Transaction Committed" THEN "none" ELSE "DatabaseError")

\* C9: commit() and rollback() with no id held send nothing, raise nothing and
\* leave the Connection as it was: the call's record shows no request and no
\* failure, and the step changes nothing of the Connection or of the service.
C9_NoTxnNoOp ==
    /\ [](  (call.op \in {"commit", "rollback"} /\ call.pre = NoTxn) =>
               (call.sent = <<>> /\ call.raised = "none" /\ transaction_id = NoTxn)  )
    /\ [][(transaction_id = NoTxn /\ call'.op \in {"commit", "rollback"}) =>
             UNCHANGED <<transaction_id, charset, begins, srvTxn, ended, entered>>]_connVars

C9_Witness ==
    /\ call.op = "rollback" /\ call.pre = NoTxn /\ call.sent = <<>>
    /\ begins > 0 /\ ended[1] = 1

\* C10: a normal scoped exit commits (one commit request if an id is held) and
\* never rolls back; an exit through a failure rolls back (one rollback request
\* if an id is held), never commits, and the failure that caused it is the one
\* that reaches the caller.
C10_ScopedExit ==
    /\ call.op = "exit_ok" =>
          /\ CountRpc(call.sent, "rollback") = 0
          /\ CountRpc(call.sent, "commit") = (IF call.pre # NoTxn THEN 1 ELSE 0)
    /\ call.op = "exit_err" =>
          /\ CountRpc(call.sent, "commit") = 0
          /\ CountRpc(call.sent, "rollback") = (IF call.pre # NoTxn THEN 1 ELSE 0)
          /\ call.propagated = "original"

\* C11: rollback() with an id held sends one rollback request for that id, and
\* whatever the service answers, a failure included, it raises nothing and leaves
\* the Connection without an id.
C11_RollbackBestEffort ==
    (call.op = "rollback" /\ call.pre # NoTxn) =>
        /\ call.sent = <<Req("rollback", call.pre)>>
        /\ call.raised = "none"
        /\ transaction_id = NoTxn

\* C12: an execute whose direct attempt carried the pagination signal sends one
\* more request and no other, the DECLARE, with the statement (operation and
\* parameters) and the transaction id of the direct attempt; it fetches nothing,
\* and the paging state it records has the cursor's arraysize as page size.  A
\* DECLARE that fails is still the only further request.
C12_DeclareOnceNoFetch ==
    /\ (via = "paginate" /\ hist = "none") =>
          /\ reqs = <<Direct(Args(stmt)), Declare(Args(stmt))>>
          /\ reqs[2].q = reqs[1].q /\ reqs[2].txn = reqs[1].txn
          /\ paging_state.set
          /\ paging_state.records_per_page = arraysize
          /\ paging_state.args = Args(stmt)
          /\ delivered = <<>> /\ srv.pos = 0
          /\ fault = NoFault
    /\ (via = "failed" /\ fault.op = "DECLARE") =>
          /\ Len(reqs) = 2 /\ reqs[1].op = "EXECUTE" /\ reqs[2].op = "DECLARE"
          /\ reqs[2].q = reqs[1].q /\ reqs[2].txn = reqs[1].txn
          /\ ~paging_state.set

C12_Witness ==
    /\ via = "paginate" /\ hist = "none" /\ kind = "async" /\ stmt.n = 2
    /\ arraysize = DefaultArraySize /\ paging_state.records_per_page = DefaultArraySize
    /\ Len(reqs) = 2

\* C13: an execute whose direct attempt carried the size signal takes the same
\* DECLARE route, and the paging state starts with half the arraysize (integer
\* division), never less than 1.
C13_HalfPageAfterOversize ==
    (via = "oversize" /\ hist = "none") =>
        /\ reqs = <<Direct(Args(stmt)), Declare(Args(stmt))>>
        /\ paging_state.set
        /\ paging_state.records_per_page >= 1
        /\ paging_state.records_per_page =
              (IF arraysize \div 2 >= 1 THEN arraysize \div 2 ELSE 1)
        /\ delivered = <<>> /\ srv.pos = 0

C13_Witness ==
    /\ via = "oversize" /\ hist = "none" /\ arraysize = 1
    /\ paging_state.records_per_page = 1 /\ stmt.n = 2

\* C14: a FETCH of one row that fails with the size signal is fatal: it is the
\* last request of the call (no MOVE, no further FETCH), the page size stays 1,
\* and the caller gets a classified database error.
C14_OversizeAtOneIsFatal ==
    (fault.op = "FETCH" /\ oversized /\ reqs[Len(reqs)] = Fetch(reqs[Len(reqs)], 1)) =>
        /\ paging_state.records_per_page = 1
        /\ raised = "DatabaseError"

\* C20: a request failure reaches the caller as a classified DatabaseError exactly
\* when its category is BadRequestException or DatabaseErrorException, whichever
\* request of the cursor failed (direct execute, DECLARE, FETCH, MOVE); a failure
\* of any other category reaches the caller as it is.
C20_RoutedThroughClassifier ==
    fault # NoFault =>
        raised = IF fault.cat \in {"BadRequestException", "DatabaseErrorException"}
                 THEN "DatabaseError"
                 ELSE fault.cat

\* C15: scroll(value, mode) on a Cursor without a paging state (never executed,
\* or the latest execute took the direct path or failed) raises InterfaceError
\* and sends nothing; with a paging state it sends one request, MOVE <MODE>
\* <value> FROM the cursor, with the arguments and the transaction id of the
\* DECLARE, and leaves the paging state (page size, cursor name) as it was.
C15_ScrollNeedsPaging ==
    [][ did' # NoCall /\ did'.op = "scroll" /\ vars' # vars =>
          IF ~paging_state.set
          THEN /\ via \in {"none", "ok", "failed"}
               /\ raised' = "InterfaceError"
               /\ reqs' = reqs
               /\ paging_state' = paging_state
          ELSE /\ via \in {"paginate", "oversize"}
               /\ Len(reqs') = Len(reqs) + 1
               /\ reqs' = Append(reqs,
                     [op |-> "MOVE", n |-> did'.value,
                      mode |-> IF did'.mode = "relative" THEN "RELATIVE" ELSE "ABSOLUTE",
                      q |-> stmt, txn |-> CursorTxn])
               /\ raised' # "InterfaceError"
               /\ paging_state' = paging_state ]_vars

C15_Witness ==
    /\ did.op = "scroll" /\ did.mode = "absolute" /\ did.value = 1
    /\ paging_state.set /\ raised = "none"
    /\ reqs[Len(reqs)].op = "MOVE" /\ reqs[Len(reqs)].mode = "ABSOLUTE"
    /\ delivered # <<>> /\ srv.pos = 1

\* C16: rowcount is the number of rows the latest direct execute captured, the
\* number of rows the service reports touched for a mutating statement whose
\* response has no rows, and -1 otherwise: before any execute, after a failed
\* execute, after the Cursor's with-block, and at every point of a paginated
\* result.  No fetch changes it.
C16_Rowcount ==
    rowcount(current_response) =
        IF via \in {"ok", "updated"} THEN stmt.n ELSE 0 - 1

\* a direct result partly fetched, its rowcount still the number of rows captured
C16_Witness ==
    /\ via = "ok" /\ stmt.n = 3 /\ Len(delivered) = 2 /\ hist = "fetchone"
    /\ rowcount(current_response) = 3

\* the sets request j of an executemany over k sets must carry
BatchLen(k, j) == IF k - (j - 1) * 1000 < 1000 THEN k - (j - 1) * 1000 ELSE 1000

\* C17: executemany over k parameter sets sends ceil(k / 1000) batch requests,
\* request j carrying sets (j-1)*1000+1 .. min(j*1000, k) of the sequence in
\* order (so at most 1000 each, none empty, none for an empty sequence); when
\* the service rejects a request the call raises and that request is the last
\* one sent, the earlier ones standing as sent.
C17_Batches ==
    did.op = "executemany" =>
        LET seq == did.value.seq
            k   == Len(seq)
        IN  /\ \A j \in DOMAIN reqs :
                  /\ reqs[j].op = "BATCH"
                  /\ Len(reqs[j].parameterSets) = BatchLen(k, j)
                  /\ BatchLen(k, j) >= 1
                  /\ \A i \in 1..BatchLen(k, j) :
                        /\ seq[(j - 1) * 1000 + i].mapping
                        /\ reqs[j].parameterSets[i][1].value.longValue
                             = seq[(j - 1) * 1000 + i].x
            /\ raised = "none" => Len(reqs) = (k + 999) \div 1000
            /\ fault.op = "BATCH" =>
                  /\ raised # "none"
                  /\ Len(reqs) = did.value.ans.failing
                  /\ Len(reqs) <= (k + 999) \div 1000

C17_Witness ==
    /\ did.op = "executemany" /\ Len(did.value.seq) = 2 * PageSize + 1
    /\ raised = "none" /\ Len(reqs) = 3
    /\ Len(reqs[3].parameterSets) = 1

\* the message the latest classification was given
Classified == did.value.response.Error.Message
\* the message ends in "Error code: <digits>; SQLState: <state>"
EndsInErrorCode(m) ==
    m.marker = "Error code" /\ IsDigits(m.num) /\ IsWord(m.state) /\ m.tail = ""
\* the message is "ERROR: ...; Position: <digits>; SQLState: <state>"
EndsInPosition(m) ==
    /\ m.error /\ ~m.newline /\ m.sep \in {";", "\n "}
    /\ m.marker = "Position" /\ IsDigits(m.num) /\ IsWord(m.state) /\ m.tail = ""

\* C18: the classifier decides in a fixed order: a message ending in "Error
\* code: <digits>; SQLState: <state>" with a registered code gets the class the
\* first table names for the code; otherwise a message ending in "Position:
\* <digits>; SQLState: <state>" with a registered state gets the class the second
\* table names for the state; a message of neither shape gets the generic
\* DatabaseError.
C18_ThreeWay ==
    (did.op = "classify" /\ did.value.has_response) =>
        IF EndsInErrorCode(Classified)
        THEN int(Classified.num) \in DOMAIN MySQLErrorCodes =>
                /\ error.family = "MySQLError"
                /\ error.cls = MySQLErrorCodes[int(Classified.num)]
        ELSE IF EndsInPosition(Classified)
        THEN Classified.state \in DOMAIN PostgreSQLErrorCodes =>
                /\ error.family = "PostgreSQLError"
                /\ error.cls = PostgreSQLErrorCodes[Classified.state]
        ELSE error.cls = "DatabaseError"

\* C19: whatever the classifier returns, a class of the first table, a class of
\* the second, or the generic DatabaseError, has the response of the failed
\* request as its `response` attribute.
C19_ResponseKept ==
    (did.op = "classify" /\ did.value.has_response) =>
        /\ "response" \in error.attrs
        /\ error.response = did.value.response

\* the latest call was given parameters that are not a mapping: execute an
\* array, executemany a sequence with an array in it (and no request of it was
\* rejected before the array was reached)
ArrayGiven ==
    \/ did.op = "execute" /\ did.value.type = "list"
    \/ /\ did.op = "executemany" /\ did.value.ans.failing = 0
       /\ \E i \in DOMAIN did.value.seq : ~did.value.seq[i].mapping
\* the same with an array that is not empty
FilledArrayGiven ==
    \/ did.op = "execute" /\ did.value.type = "list" /\ did.value.len > 0
    \/ /\ did.op = "executemany" /\ did.value.ans.failing = 0
       /\ \E i \in DOMAIN did.value.seq : ~did.value.seq[i].mapping

C22_RoundTrip ==
    did.op = "prepare_param" =>
        /\ did.value.param_value.type = "datetime" =>
               did.value.param.typeHint = "TIMESTAMP"
        /\ did.value.param_value.type = "bool" =>
               did.value.param.value.tag = "booleanValue"
        /\ did.value.rendered.type = did.value.param_value.type
        /\ did.value.rendered = did.value.param_value

C22_Witness ==
    /\ did.op = "prepare_param" /\ did.value.param_value.type = "datetime"
    /\ did.value.param_value.microsecond = 7
    /\ did.value.param.value.scalar # <<>>
    /\ did.value.rendered = did.value.param_value

\* C23: fetchmany(n) with n >= 1 returns exactly min(n, rows not yet delivered)
\* rows, the next ones in result order after those delivered by earlier fetch
\* calls, whatever the page boundaries, and an empty list only when the result
\* is exhausted.
C23_FetchManyChunks ==
    (did.op = "fetchmany" /\ raised = "none") =>
        \E before \in {Len(delivered) - Len(ret)} :
            \E chunk \in {Min(did.value, Len(Rows(stmt)) - before)} :
                /\ Len(ret) = chunk
                /\ ret = SubSeq(Rows(stmt), before + 1, before + chunk)

\* C24: a Cursor holds a paging state only while a result is streamed through a
\* named cursor: none after a direct-path or failed execute, none any more once
\* the fetch loop received the empty page that exhausts the named cursor or the
\* Cursor was closed or its scope exited, so that a scroll() issued afterwards
\* raises InterfaceError.
C24_PagingStateLifetime ==
    /\ via \in {"none", "ok", "updated", "failed"} => ~paging_state.set
    /\ (via \in {"paginate", "oversize"} /\ fin \in {"ended", "past"}) => ~paging_state.set
    /\ via = "exited" => ~paging_state.set
    /\ (did.op = "scroll" /\ (via = "exited" \/ fin \in {"ended", "past"})) =>
          raised = "InterfaceError"

StatementOps == {"EXECUTE", "DECLARE", "FETCH", "MOVE", "BATCH"}

\* C25: no Cursor operation (execute, executemany, fetchone, fetchmany,
\* fetchall, iteration, scroll, close, scope exit) sends a commit or rollback
\* request or changes the transaction id the Connection holds: every request
\* of a Cursor is a statement request under the id the Cursor was made with.
C25_CursorsShareReadOnly ==
    [][ curVars' # curVars =>
          /\ transaction_id' = transaction_id
          /\ ended' = ended
          /\ begins' = begins
          /\ \A i \in DOMAIN reqs' :
                reqs'[i].op \in StatementOps /\ reqs'[i].txn = CursorTxn ]_vars

C25_Witness ==
    /\ transaction_id = CursorTxn /\ ended[CursorTxn] = 0
    /\ via = "exited" /\ paging_state.set /\ delivered # <<>>
    /\ \E i \in DOMAIN reqs : reqs[i].op = "FETCH"

\* C26: the generated cursor name is unique per statement: an execute that
\* enters the pagination path declares a name different from the one the
\* paginated execute before it declared under the same transaction.  (The step
\* is an execute that follows a fetch: it clears the fetch history; the paging
\* state of the earlier execute is still there when it begins.)
C26_NamesDiffer ==
    [][ (hist # "none" /\ hist' = "none" /\ paging_state.set /\ paging_state'.set) =>
          paging_state'.pg_cursor_name # paging_state.pg_cursor_name ]_vars

\* C27: the requests of one Cursor are strictly sequential, in the blocking and
\* in the event-loop variant: within execute with its DECLARE, the fetch loop
\* with rewind and retry, scroll and executemany a request is sent only once
\* the previous one has been answered, so at most one request is in flight,
\* and it is the one sent last.
C27_OneRequestInFlight ==
    /\ Len(inflight) <= 1
    /\ inflight # <<>> => (reqs # <<>> /\ inflight[1] = reqs[Len(reqs)])
    /\ pc.op = "idle" <=> inflight = <<>>

C27_Witness ==
    /\ kind = "async" /\ pc.op = "fetchall" /\ pc.at = "FETCH"
    /\ Len(inflight) = 1 /\ inflight[1].n = 1
    /\ \E i \in DOMAIN reqs : reqs[i].op = "MOVE"

\* the page size the paging state of the latest execute began with
InitialPageSize == IF via = "paginate" THEN arraysize ELSE Max(1, arraysize \div 2)
\* the FETCH requests of the log
Fetches == { i \in DOMAIN reqs : reqs[i].op = "FETCH" }
\* request i is a FETCH sent again after the rewind of a refused FETCH
IsRetry(i) ==
    /\ i > 2 /\ reqs[i - 1].op = "MOVE" /\ reqs[i - 2].op = "FETCH"
    /\ reqs[i - 1].n = 0 - reqs[i - 2].n

\* C28: with a default page size of at least 1 the page size of a paging state
\* is between 1 and the default page size, never increases, and changes only
\* from N to floor(N / 2) at an oversize failure of a FETCH of N > 1 rows: the
\* first FETCH asks for the initial size, a FETCH after a rewind for half the
\* size of the refused one, every other FETCH for the size of the one before.
C28_PageSizeOnlyHalves ==
    paging_state.set =>
        /\ paging_state.records_per_page \in 1..arraysize
        /\ \A i \in Fetches :
              IF \A j \in Fetches : j >= i THEN reqs[i].n = InitialPageSize
              ELSE IF IsRetry(i)
              THEN reqs[i - 2].n > 1 /\ reqs[i].n = reqs[i - 2].n \div 2 /\ oversized
              ELSE \E j \in Fetches :
                      /\ j < i /\ reqs[i].n = reqs[j].n
                      /\ \A k \in Fetches : k < i => k <= j
        /\ paging_state.records_per_page =
              IF Fetches = {} THEN InitialPageSize
              ELSE reqs[CHOOSE i \in Fetches : \A j \in Fetches : j <= i].n

C28_Witness ==
    /\ paging_state.set /\ arraysize = MaxArraySize /\ via = "paginate"
    /\ paging_state.records_per_page = 1
    /\ Cardinality({ i \in Fetches : IsRetry(i) }) = 2
    /\ delivered # <<>>

\* the latest call ended at a FETCH of more than one row that was refused as
\* oversize
RefusedAndLeft ==
    /\ fault.op = "FETCH" /\ oversized /\ reqs # <<>>
    /\ reqs[Len(reqs)].op = "FETCH" /\ reqs[Len(reqs)].n > 1

\* C29: a FETCH of N > 1 rows that fails as oversize is followed by exactly
\* one rewind, a MOVE by -N, and then by a FETCH of floor(N / 2) rows, both
\* with the arguments (cursor, transaction id) of the failed FETCH: no refused
\* FETCH of more than one row is left without its rewind, and every rewind in
\* the log stands between such a pair of FETCHes (the second is missing only
\* when the MOVE itself failed and ended the consumption).
C29_RewindThenHalfPage ==
    /\ ~RefusedAndLeft
    /\ \A i \in DOMAIN reqs :
          reqs[i].op = "MOVE" =>
              /\ i > 1 /\ reqs[i - 1].op = "FETCH" /\ reqs[i - 1].n > 1
              /\ reqs[i] = Move([q |-> reqs[i - 1].q, txn |-> reqs[i - 1].txn],
                                "RELATIVE", 0 - reqs[i - 1].n)
              /\ IF i = Len(reqs) THEN fin = "failed"
                 ELSE reqs[i + 1] = Fetch([q |-> reqs[i - 1].q, txn |-> reqs[i - 1].txn],
                                          reqs[i - 1].n \div 2)

RECURSIVE Log2(_)
\* floor(log2(n)) for n >= 1
Log2(n) == IF n <= 1 THEN 0 ELSE 1 + Log2(n \div 2)
\* the refused FETCHes of the log that were rewound and sent again
Retries == { i \in Fetches : IsRetry(i) }

\* C30: consuming a paginated cursor ends, under every pattern of oversize
\* failures, with the empty page or with a classified database error, and of
\* the oversize failures at most floor(log2(P)) are retried, P being the
\* initial page size: a fetch call that raises raises DatabaseError, a FETCH
\* refused as oversize is fatal only at page size 1, and the log holds at most
\* floor(log2(P)) retries.
C30_EndsWithinLog2Retries ==
    (paging_state.set /\ via \in {"paginate", "oversize"}) =>
        /\ (hist # "none" /\ raised # "none") => raised = "DatabaseError"
        /\ (hist # "none" /\ fault.op = "FETCH") => reqs[Len(reqs)].n = 1
        /\ Cardinality(Retries) <= Log2(InitialPageSize)

\* the requests a step added to the Cursor's log
Added == SubSeq(reqs', Len(reqs) + 1, Len(reqs'))

\* C31: no request is retried outside the page-size halving.  A Connection call
\* sends each of begin, commit and rollback at most once, and nothing after the
\* one that failed.  A Cursor call that raises sends nothing more; the answer to
\* the direct attempt is followed by the DECLARE or by nothing, the answer to the
\* DECLARE by nothing, the answer to a batch only by the next batch and only when
\* it succeeded; a FETCH is sent after an answer only as the next page of a page
\* that had rows, or, with half the page size, after the rewind of a FETCH of
\* more than one row that was refused for size; the statement is sent unwrapped
\* once per execute.
C31_NoRetry ==
    [][ /\ \A rpc \in {"begin", "commit", "rollback"} : CountRpc(call'.sent, rpc) <= 1
        /\ call'.raised = "ClientError" =>
              Len(call'.sent) = 1 /\ call'.ans = "raise"
        /\ Len(SelectSeq(reqs', LAMBDA r : r.op = "EXECUTE")) <= 1
        /\ Len(SelectSeq(reqs', LAMBDA r : r.op = "DECLARE")) <= 1
        /\ pc.op # "idle" =>
              /\ raised' # "none" => (Added = <<>> /\ inflight' = <<>> /\ pc' = Idle)
              /\ Len(Added) <= 1
              /\ pc.at = "EXECUTE" => \A i \in DOMAIN Added : Added[i].op = "DECLARE"
              /\ pc.at = "DECLARE" => Added = <<>>
              /\ pc.at = "BATCH" => \A i \in DOMAIN Added : Added[i].op = "BATCH"
              /\ pc.at = "MOVE" => \A i \in DOMAIN Added :
                    /\ pc.op = "fetchall" /\ oversized
                    /\ Added[i] = Fetch(paging_state.args, paging_state.records_per_page \div 2)
                    /\ paging_state.records_per_page > 1
              /\ pc.at = "FETCH" => \A i \in DOMAIN Added :
                    \/ /\ Added[i] = inflight[1]
                       /\ Len(delivered') > Len(delivered)
                    \/ /\ Added[i] = Move(paging_state.args, "RELATIVE",
                                          0 - paging_state.records_per_page)
                       /\ oversized' /\ paging_state.records_per_page > 1
                       /\ delivered' = delivered
      ]_vars

\* a rollback failed and was not repeated; a FETCH that failed for another
\* reason than size ended fetchall; a FETCH of one row refused for size did too
C31_Witness ==
    /\ call.op = "rollback" /\ call.raised = "ClientError" /\ Len(call.sent) = 1
    /\ fault.op = "FETCH" /\ pc = Idle /\ fin = "failed"
    /\ \E i \in DOMAIN reqs : reqs[i].op = "MOVE"
    /\ reqs[Len(reqs)] = Fetch(Args(stmt), 1)

\* the rows of a statement decoded with its own column metadata
DecodedRows(s) ==
    [i \in 1..s.n |-> [j \in DOMAIN s.cols |->
                         render_scalar(WireValue(s.cols[j], i), pg_type(s.cols[j]))]]

\* C32: after an execute that succeeded the Description is the one made of that
\* statement's column metadata and its rows are decoded with it: on the direct
\* path when execute returns, on the pagination path once fetchall has read its
\* pages (the empty first page included), whatever was executed before.
C32_DescriptionOfStatement ==
    /\ via = "ok" =>
          /\ description = set_description(stmt.cols)
          /\ current_response.records = DecodedRows(stmt)
    /\ (via = "paginate" /\ hist # "none") =>
          /\ description = set_description(stmt.cols)
          /\ raised = "none"
          /\ delivered = DecodedRows(stmt)

\* C33: every row delivered has one element per wire value of its record, in
\* wire order, element j decoded with Description entry j, and the arity of the
\* Description.
C33_RowsMatchDescription ==
    \A i \in DOMAIN delivered :
        /\ description.set
        /\ Len(delivered[i]) = Len(WireRecord(stmt, i))
        /\ Len(delivered[i]) = Len(description.cols)
        /\ \A j \in DOMAIN delivered[i] :
              delivered[i][j] = render_scalar(WireRecord(stmt, i)[j], description.cols[j])

\* C34: a Cursor call that sends statement requests sends them under the id
\* that is the Connection's active transaction during the call, so none goes
\* out under an id that commit() or rollback() has ended.
C34_RequestsUnderActiveTransaction ==
    [][ (reqs' # reqs /\ reqs' # <<>>) =>
            /\ transaction_id # NoTxn
            /\ reqs'[Len(reqs')].txn = transaction_id
            /\ ended[reqs'[Len(reqs')].txn] = 0
      ]_vars

\* C35: with continue_after_timeout set, every request of execute (the direct
\* attempt, the DECLARE, each FETCH and each MOVE) carries the flag with the
\* configured value; with None no request of the Cursor carries it.
C35_FlagOnEveryRequest ==
    \A i \in DOMAIN reqs :
        IF continue_after_timeout = "None"
        THEN "continueAfterTimeout" \notin DOMAIN reqs[i]
        ELSE reqs[i].sql.op \in {"EXECUTE", "DECLARE", "FETCH", "MOVE"} =>
                /\ "continueAfterTimeout" \in DOMAIN reqs[i]
                /\ reqs[i].continueAfterTimeout = continue_after_timeout

\* continue_after_timeout=False: a paginated execute whose FETCH was refused for
\* size, rewound and sent again; all four kinds of request were sent
C35_Witness ==
    /\ continue_after_timeout = "False"
    /\ fin = "ended" /\ delivered # <<>>
    /\ \A op \in {"EXECUTE", "DECLARE", "FETCH", "MOVE"} :
          \E i \in DOMAIN reqs : reqs[i].sql.op = op

\* the message matches a pattern of the classifier and the code or state it
\* extracts is in neither engine's table for that pattern
UnknownCode(m) ==
    \/ /\ SearchMySQL(m).matched
       /\ int(SearchMySQL(m).group1) \notin DOMAIN MySQLErrorCodes
    \/ /\ ~SearchMySQL(m).matched /\ SearchPostgreSQL(m).matched
       /\ SearchPostgreSQL(m).group2 \notin DOMAIN PostgreSQLErrorCodes

\* C37: a message that matches a pattern with a code or state that is not in
\* the engine's table is classified as the generic DatabaseError wrapping the
\* original failure; no lookup exception leaves the classifier.
C37_UnknownCodeIsGeneric ==
    (did.op = "classify" /\ did.value.has_response /\ UnknownCode(Classified)) =>
        /\ error.cls = "DatabaseError"
        /\ error.family = "DatabaseError"
        /\ error.args = did.value

\* a message ending in "Error code: 15; SQLState: 42000" was classified
C37_Witness ==
    /\ did.op = "classify" /\ did.value.has_response
    /\ SearchMySQL(Classified).matched
    /\ Classified.num = <<"1", "5">>
    /\ error.cls = "DatabaseError"

\* C36: a class of a factory, once made, stays the class of its name: resolving
\* a code again, or asking for the class by name before or after, yields that
\* very class (so an except clause naming it catches the errors raised for the
\* code), and every class made derives from DatabaseError.
C36_OneClassPerCode ==
    [][ (did'.op \in {"getattr", "from_code"} /\ did'.value.raised = "none") =>
            /\ did'.value.cls.base = "DatabaseError"
            /\ factory'.dict[did'.value.factory][did'.value.cls.name] = did'.value.cls
            /\ \A f \in Factories : \A a \in MemberNames(f) :
                  factory.dict[f][a] # NoClass =>
                      /\ factory'.dict[f][a] = factory.dict[f][a]
                      /\ (f = did'.value.factory /\ a = did'.value.cls.name) =>
                            did'.value.cls = factory.dict[f][a]
            /\ \A f \in Factories : \A a, b \in MemberNames(f) :
                  (a # b /\ factory'.dict[f][a] # NoClass) =>
                      factory'.dict[f][a].id # factory'.dict[f][b].id
      ]_vars

\* code 1064 was resolved to the class ER_PARSE_ERROR that was made before a
\* later class, by the name or by the code
C36_Witness ==
    /\ did.op = "from_code" /\ did.value.raised = "none"
    /\ did.value.factory = "MySQLError"
    /\ did.value.cls.name = "ER_PARSE_ERROR"
    /\ did.value.cls.id < factory.made
    /\ factory.dict["MySQLError"]["ER_PARSE_ERROR"] = did.value.cls

\* C38: executemany, whether it returns or raises, leaves the result state of
\* the preceding execute as it was: the captured response, the row position (of
\* the generator, of the async cursor's index and page iterator, and of the
\* service's named cursor), the paging state, the Description and rowcount.
C38_ExecuteManyKeepsResult ==
    [][ did'.op = "executemany" =>
            /\ current_response' = current_response
            /\ iterator' = iterator
            /\ record_index' = record_index
            /\ page_iterator' = page_iterator
            /\ paging_state' = paging_state
            /\ srv' = srv
            /\ description' = description
            /\ rowcount(current_response') = rowcount(current_response)
      ]_vars

\* executemany failed at its first batch after a paginated execute of which a
\* row was fetched; and after a direct execute, rowcount is still its row count
C38_Witness ==
    /\ did.op = "executemany" /\ raised = "DatabaseError" /\ fault.op = "BATCH"
    /\ paging_state.set /\ delivered # <<>> /\ srv.pos > 0

\* C39: whatever fetchone, fetchmany, fetchall and for-loops ran since the
\* latest execute returned, what they delivered together is the result read
\* once from its start: row i of the result at place i, no row twice, none
\* left out before a later one, and all of them once a call reported the end.
C39_ConsumedOnce ==
    Returned =>
        /\ Len(delivered) <= stmt.n
        /\ \A i \in DOMAIN delivered : delivered[i] = Row(stmt, i)
        /\ fin \in {"ended", "past"} => Len(delivered) = stmt.n

\* ------------------------------------------- cursor() coroutines on one Connection
\* The async cursor() gives up control at each await: at _ensure_client, at
\* begin_transaction and at the SET statement's execute.  Another coroutine
\* that calls cursor() on the same Connection runs in between.

restVars == <<kind, arraysize, current_response, paging_state, iterator, record_index,
              page_iterator, srv, stmt, via, reqs, delivered, ret, raised, hist, fin,
              oversized, fault, error, did, pc, inflight, description,
              continue_after_timeout, factory>>

At(t, a, c) == [tasks EXCEPT ![t] = [at |-> a, cur |-> c]]
\* the coroutines that passed the test and have not seen begin_transaction's answer
Beginning(a) == Cardinality({t \in Tasks : tasks[t].at \in a})

\* the Cursor is made with the id the Connection holds at that moment; with a
\* charset the coroutine then awaits the SET statement
made_cursor(t, tid) == At(t, IF charset THEN "set" ELSE "done", tid)

\* cursor() from its call to its first await: `if self._transaction_id is None`
TaskCursor(t) ==
    /\ tasks[t].at \in {"idle", "done", "failed"}
    /\ IF transaction_id = NoTxn
       THEN /\ begins + Beginning({"ensure"}) < MaxBegins
            /\ srvTxn + Beginning({"ensure", "begin"}) < MaxTxn
            /\ tasks' = At(t, "ensure", NoTxn)
       ELSE tasks' = made_cursor(t, transaction_id)
    /\ UNCHANGED connVars
    /\ UNCHANGED restVars

\* _ensure_client() returned: the begin_transaction request goes out
TaskEnsured(t) ==
    /\ tasks[t].at = "ensure"
    /\ begins' = begins + 1
    /\ tasks' = At(t, "begin", NoTxn)
    /\ UNCHANGED <<transaction_id, charset, srvTxn, ended, entered, call>>
    /\ UNCHANGED restVars

\* begin_transaction answered: the id is assigned to the Connection, whatever
\* it holds by now, and the Cursor is made with it
TaskBegun(t) ==
    /\ tasks[t].at = "begin"
    /\ \E bans \in BeginAnswers :
        IF bans = "raise"
        THEN /\ tasks' = At(t, "failed", NoTxn)
             /\ UNCHANGED <<transaction_id, srvTxn>>
        ELSE /\ srvTxn' = srvTxn + 1
             /\ transaction_id' = srvTxn + 1
             /\ tasks' = made_cursor(t, srvTxn + 1)
    /\ UNCHANGED <<charset, begins, ended, entered, call>>
    /\ UNCHANGED restVars

\* the SET statement answered: cursor() returns the Cursor, or the failure
TaskSet(t) ==
    /\ tasks[t].at = "set"
    /\ \E sans \in SetAnswers :
        tasks' = IF sans = "raise" THEN At(t, "failed", NoTxn)
                                   ELSE At(t, "done", tasks[t].cur)
    /\ UNCHANGED connVars
    /\ UNCHANGED restVars

RaceNext ==
    \E t \in Tasks :
        \/ TaskCursor(t)
        \/ TaskEnsured(t)
        \/ TaskBegun(t)
        \/ TaskSet(t)

RaceStart == ConnInit /\ CurInit /\ kind = "async" /\ arraysize = DefaultArraySize

RaceSpec == RaceStart /\ [][RaceNext]_vars

\* C40: with cursor() called from two coroutines on a Connection that nothing
\* commits or rolls back, every id the service handed out is the id the
\* Connection holds (no transaction was begun and then dropped), and the
\* Cursors the two calls returned carry the same id.
C40_OneTransactionForInterleavedCalls ==
    /\ \A id \in 1..srvTxn : id = transaction_id \/ ended[id] > 0
    /\ \A t, u \in Tasks :
          (tasks[t].at = "done" /\ tasks[u].at = "done") => tasks[t].cur = tasks[u].cur

=============================================================================
